---- MODULE Spec2Model ----
(***************************************************************************)
(* Model of the graph extraction of georgievi-network: the five views that *)
(* turn the loaded letter records into weighted graphs (correspondents,    *)
(* places, topics, commodity-place, temporal window).                      *)
(*                                                                         *)
(* A Python str is a sequence of one-character strings, so that strip(),   *)
(* sorted() and strptime() are computed and not assumed.  None is a value  *)
(* of its own.  One script run renders the tabs in the order of app.py;    *)
(* every extraction loop is one step per record.                           *)
(***************************************************************************)
EXTENDS Integers, Sequences, FiniteSets, TLC

\* ------------------------------------------------------------------------
\* Bounds of the model
\* ------------------------------------------------------------------------
\* Longest record list that load_data returns in the model.
MaxRecords == 3

\* ------------------------------------------------------------------------
\* Python values
\* ------------------------------------------------------------------------
None == <<"None">>

\* bool(x) of an Optional[str] : None and '' are falsy.
Truthy(s) == s # None /\ s # <<>>

IsSpace(c) == c = " "

RECURSIVE LStrip(_)
LStrip(s) == IF s # <<>> /\ IsSpace(Head(s)) THEN LStrip(Tail(s)) ELSE s

RECURSIVE RStrip(_)
RStrip(s) ==
    IF s # <<>> /\ IsSpace(s[Len(s)]) THEN RStrip(SubSeq(s, 1, Len(s) - 1)) ELSE s

\* str.strip()
Strip(s) == RStrip(LStrip(s))

\* ord(c) for the characters the model uses.
Ord(c) ==
    CASE c = " " -> 32
      [] c = "-" -> 45
      [] c = "." -> 46
      [] c = "/" -> 47
      [] c = "0" -> 48
      [] c = "1" -> 49
      [] c = "2" -> 50
      [] c = "3" -> 51
      [] c = "4" -> 52
      [] c = "5" -> 53
      [] c = "6" -> 54
      [] c = "7" -> 55
      [] c = "8" -> 56
      [] c = "9" -> 57
      [] c = "A" -> 65
      [] c = "B" -> 66
      [] c = "C" -> 67
      [] c = "X" -> 88
      [] c = "Y" -> 89
      [] c = "w" -> 119
      [] c = "y" -> 121
      [] OTHER -> 122

\* a < b on str (lexicographic by code point), the order sorted() uses.
RECURSIVE StrLess(_, _)
StrLess(a, b) ==
    IF b = <<>> THEN FALSE
    ELSE IF a = <<>> THEN TRUE
    ELSE IF Head(a) = Head(b) THEN StrLess(Tail(a), Tail(b))
    ELSE Ord(Head(a)) < Ord(Head(b))

\* sorted(S) of a set of str.
RECURSIVE Sorted(_)
Sorted(S) ==
    IF S = {} THEN <<>>
    ELSE LET m == CHOOSE x \in S : \A y \in S \ {x} : StrLess(x, y)
         IN  <<m>> \o Sorted(S \ {m})

\* dict[k] = dict.get(k, 0) + n ; Counter[k] += n
Inc(d, k, n) ==
    IF k \in DOMAIN d THEN [d EXCEPT ![k] = @ + n] ELSE d @@ (k :> n)

\* The empty dict.
EmptyDict == [k \in {} |-> 0]

\* sum(d.values())
RECURSIVE SumValues(_)
SumValues(d) ==
    IF DOMAIN d = {} THEN 0
    ELSE LET k == CHOOSE x \in DOMAIN d : TRUE
         IN  d[k] + SumValues([x \in (DOMAIN d) \ {k} |-> d[x]])

\* A dict that keeps its insertion order (Counter, dict): a sequence of
\* <<key, value>> ; a new key goes last, an old key keeps its place.
RECURSIVE OInc(_, _, _)
OInc(od, k, n) ==
    IF od = <<>> THEN << <<k, n>> >>
    ELSE IF Head(od)[1] = k THEN << <<k, Head(od)[2] + n>> >> \o Tail(od)
    ELSE <<Head(od)>> \o OInc(Tail(od), k, n)

OKeys(od) == {od[j][1] : j \in 1..Len(od)}

OGet(od, k) ==
    IF k \in OKeys(od)
    THEN (od[CHOOSE j \in 1..Len(od) : od[j][1] = k])[2]
    ELSE 0

\* ------------------------------------------------------------------------
\* Records (the dict load_data builds for one letter)
\* ------------------------------------------------------------------------
X == <<"X">>
Y == <<"Y">>
sX == <<" ", "X">>
Blank == <<" ">>
A == <<"A">>
B == <<"B">>
C == <<"C">>
sA == <<" ", "A">>
w == <<"w">>
ws == <<"w", " ">>

D0101 == <<"0", "1", ".", "0", "1", ".", "1", "8", "0", "0">>
D1501 == <<"1", "5", ".", "0", "1", ".", "1", "8", "0", "0">>
D1002 == <<"1", "0", ".", "0", "2", ".", "1", "8", "0", "0">>
Dbad == <<"y", "y">>

Entry(sn, an, sd, sp, ap, mt, kw, mp) ==
    [sender_name |-> sn, addressee_name |-> an, sender_date |-> sd,
     sender_place |-> sp, addressee_place |-> ap,
     main_topics |-> mt, keywords |-> kw, mentioned_places |-> mp]

\* A letter that only names its correspondents and its date.
Letter(sn, an, sd) == Entry(sn, an, sd, None, None, <<>>, <<>>, <<>>)

\* A letter that only names places and keywords.
PlaceEntry(sp, ap, mp, kw) ==
    Entry(None, None, None, sp, ap, <<>>, kw, [j \in 1..Len(mp) |-> [name |-> mp[j]]])

\* A letter that only lists topics and keywords.
TopicEntry(mt, kw) == Entry(None, None, None, None, None, mt, kw, <<>>)

PersonRecords ==
    { Letter(X, Y, D0101), Letter(X, Y, D1501), Letter(Y, X, D1002),
      Letter(X, Y, Dbad), Letter(sX, Y, D0101), Letter(Blank, Y, D0101),
      Letter(X, X, D0101), Letter(None, Y, D0101), Letter(X, <<>>, D0101),
      Letter(Y, X, None) }

PlaceRecords ==
    { PlaceEntry(A, B, <<C>>, <<w, X>>), PlaceEntry(B, A, <<>>, <<w>>),
      PlaceEntry(A, B, <<A>>, <<w, ws>>), PlaceEntry(A, None, <<C, C>>, <<A>>),
      PlaceEntry(sA, A, <<>>, <<Blank>>), PlaceEntry(None, B, <<None, Blank>>, <<w, B>>),
      PlaceEntry(A, A, <<B>>, <<None, w>>), PlaceEntry(B, None, <<>>, <<A>>) }

TopicRecords ==
    { TopicEntry(<<B, A, B>>, <<C, A>>), TopicEntry(<<A>>, <<A>>),
      TopicEntry(<<B, A>>, <<>>), TopicEntry(<<Blank>>, <<A>>),
      TopicEntry(<<A, sA>>, <<B>>), TopicEntry(<<None>>, <<C, C>>),
      TopicEntry(<<>>, <<>>), TopicEntry(<<C>>, <<B>>) }

\* All lists of at most n records of one family.
RECURSIVE ListsUpTo(_, _)
ListsUpTo(S, n) ==
    IF n = 0 THEN {<<>>}
    ELSE LET shorter == ListsUpTo(S, n - 1)
         IN  shorter \cup {Append(l, r) : l \in {x \in shorter : Len(x) = n - 1}, r \in S}

Corpora ==
    ListsUpTo(PersonRecords, MaxRecords) \cup ListsUpTo(PlaceRecords, MaxRecords)
        \cup ListsUpTo(TopicRecords, MaxRecords)

\* ------------------------------------------------------------------------
\* State
\* ------------------------------------------------------------------------
VARIABLES
    data,              \* the list load_data returned
    pc,                \* the tab whose code runs
    i,                 \* position of the running loop in data (1-based)
    i2,                \* position of the loop of a second session's call
    date_format,       \* extract_temporal_data : position of the loop over date_formats
    date_obj,          \* extract_temporal_data : the date parsed (NoDate : None)
    edge_weights,      \* show_network_analysis : dict (sender, addressee) -> count
    G,                 \* show_network_analysis : the DiGraph
    min_connections,   \* show_network_analysis : the slider (0 : not read)
    G_filtered,        \* show_network_analysis : the filtered copy
    place_connections, \* extract_place_connections : Counter (place1, place2) -> count
    all_places,        \* extract_place_connections : set of place names
    place_info,        \* extract_place_connections : dict place -> counts
    G_geo,             \* show_network_diagram : the Graph of places
    letters_topics,    \* extract_topics_keywords_data : list of the letters' topic sets
    all_topics,        \* extract_topics_keywords_data : Counter topic -> frequency
    cooccurrence,      \* extract_topics_keywords_data : Counter (a, b) -> count
    G_topics,          \* show_topics_network : the Graph of topics
    min_cooccurrence,  \* show_topics_network : the slider (0 : not read)
    G_topics_filtered, \* show_topics_network : G_filtered, the drawn Graph
    edges,             \* extract_commodity_place_data : list of (commodity, place, type)
    commodities,       \* extract_commodity_place_data : set of keywords
    places,            \* extract_commodity_place_data : set of place names
    commodity_data,    \* extract_commodity_place_data : the returned dict
    G_commodity,       \* show_commodity_analysis : the bipartite Graph
    min_weight,        \* show_commodity_network : the slider (0 : not read)
    G_commodity_filtered, \* show_commodity_network : G_filtered, the drawn Graph
    letters,           \* extract_temporal_data : list of dated letters
    date_range,        \* extract_temporal_data : dict start, end, span_days (or None)
    window,            \* show_static_temporal_network : center and window_size
    G_temporal         \* show_static_temporal_network : the DiGraph of the window

netVars == <<edge_weights, G, min_connections, G_filtered>>
geoVars == <<place_connections, all_places, place_info, G_geo>>
topicVars == <<letters_topics, all_topics, cooccurrence, G_topics,
              min_cooccurrence, G_topics_filtered>>
comVars == <<edges, commodities, places, commodity_data, G_commodity,
            min_weight, G_commodity_filtered>>
tempVars == <<letters, date_range, window, G_temporal>>
dateVars == <<date_format, date_obj>>
vars == <<data, pc, i, i2, dateVars, netVars, geoVars, topicVars, comVars, tempVars>>

\* Largest value of the minimum-connections slider the model tries.
MaxMinConnections == 3

\* nx.DiGraph() / nx.Graph() : no nodes, no edges.
EmptyGraph == [nodes |-> {}, edges |-> EmptyDict]

\* ------------------------------------------------------------------------
\* Correspondent view : show_network_analysis
\* ------------------------------------------------------------------------
\* NetworkAccumulate without the test of the addressee.
NetworkAccumulate_SenderOnly(ew, entry) ==
    IF Truthy(entry.sender_name)
    THEN Inc(ew, <<entry.sender_name, entry.addressee_name>>, 1)
    ELSE ew

\* NetworkAccumulate with one key for both directions of a pair.
NetworkAccumulate_Merged(ew, entry) ==
    LET sender == entry.sender_name
        addressee == entry.addressee_name
    IN  IF Truthy(sender) /\ Truthy(addressee)
        THEN Inc(ew, IF StrLess(addressee, sender) THEN <<addressee, sender>>
                     ELSE <<sender, addressee>>, 1)
        ELSE ew

\* One pass of "for entry in data" : count the letter under (sender, addressee).
NetworkAccumulate(ew, entry) ==
    LET sender == entry.sender_name
        addressee == entry.addressee_name
    IN  IF Truthy(sender) /\ Truthy(addressee)
        THEN Inc(ew, <<sender, addressee>>, 1)
        ELSE ew

\* G.add_edge(sender, addressee, weight=weight) for every key of the dict.
DiGraphOf(ew) ==
    [nodes |-> {k[1] : k \in DOMAIN ew} \cup {k[2] : k \in DOMAIN ew},
     edges |-> ew]

\* G.in_degree(node) + G.out_degree(node) ; a self-loop counts in both.
InOutDegree(g, node) ==
    Cardinality({k \in DOMAIN g.edges : k[2] = node})
        + Cardinality({k \in DOMAIN g.edges : k[1] = node})

\* G.subgraph(nodes).copy() of a DiGraph.
DiSubgraph(g, keep) ==
    [nodes |-> g.nodes \cap keep,
     edges |-> [k \in {e \in DOMAIN g.edges : e[1] \in keep /\ e[2] \in keep}
                    |-> g.edges[k]]]

\* FilterByConnections that keeps the nodes with at most m connections.
FilterByConnections_AtMost(g, m) ==
    DiSubgraph(g, {node \in g.nodes : InOutDegree(g, node) <= m})

\* Nodes with at least m connections, and the subgraph they induce.
FilterByConnections(g, m) ==
    DiSubgraph(g, {node \in g.nodes : InOutDegree(g, node) >= m})

NetworkStep ==
    /\ pc = "network"
    /\ i <= Len(data)
    /\ edge_weights' = NetworkAccumulate(edge_weights, data[i])
    /\ i' = i + 1
    /\ UNCHANGED <<data, dateVars, i2, pc, G, min_connections, G_filtered, geoVars, topicVars, comVars, tempVars>>

NetworkBuild ==
    /\ pc = "network"
    /\ i > Len(data)
    /\ \E m \in 1..MaxMinConnections :
          /\ min_connections' = m
          /\ G' = DiGraphOf(edge_weights)
          /\ G_filtered' = FilterByConnections(DiGraphOf(edge_weights), m)
    /\ pc' = "network_shown"
    /\ UNCHANGED <<data, dateVars, i2, i, edge_weights, geoVars, topicVars, comVars, tempVars>>

\* show_network_analysis returns : its slider value and filtered copy are gone.
NetworkReturn ==
    /\ pc = "network_shown"
    /\ min_connections' = 0
    /\ G_filtered' = EmptyGraph
    /\ pc' = "geo"
    /\ i' = 1
    /\ UNCHANGED <<data, dateVars, i2, edge_weights, G, geoVars, topicVars, comVars, tempVars>>

\* ------------------------------------------------------------------------
\* Geographic view : extract_place_connections, show_network_diagram
\* ------------------------------------------------------------------------
\* The names of mentioned_places that are truthy, in list order.
RECURSIVE MentionedNames(_)
MentionedNames(mp) ==
    IF mp = <<>> THEN <<>>
    ELSE (IF Truthy(Head(mp).name) THEN <<Head(mp).name>> ELSE <<>>)
             \o MentionedNames(Tail(mp))

\* current_letter_places : sender place, addressee place, mentioned names.
CurrentLetterPlaces(entry) ==
    (IF Truthy(entry.sender_place) THEN <<entry.sender_place>> ELSE <<>>)
        \o (IF Truthy(entry.addressee_place) THEN <<entry.addressee_place>> ELSE <<>>)
        \o MentionedNames(entry.mentioned_places)

\* The double loop over enumerate(current_letter_places) from position
\* (a, b) on : +1 under (place1, place2) when a < b and the names differ.
RECURSIVE PairLoop(_, _, _, _)
PairLoop(conn, clp, a, b) ==
    IF a > Len(clp) THEN conn
    ELSE IF b > Len(clp) THEN PairLoop(conn, clp, a + 1, 1)
    ELSE IF a < b /\ clp[a] # clp[b]
         THEN PairLoop(OInc(conn, <<clp[a], clp[b]>>, 1), clp, a, b + 1)
         ELSE PairLoop(conn, clp, a, b + 1)

\* DirectBonus that adds 1 and not 2.
DirectBonus_One(conn, entry) ==
    IF Truthy(entry.sender_place) /\ Truthy(entry.addressee_place)
           /\ entry.sender_place # entry.addressee_place
    THEN OInc(conn, <<entry.sender_place, entry.addressee_place>>, 1)
    ELSE conn

\* "Special handling for sender -> addressee connections" : +2.
DirectBonus(conn, entry) ==
    IF Truthy(entry.sender_place) /\ Truthy(entry.addressee_place)
           /\ entry.sender_place # entry.addressee_place
    THEN OInc(conn, <<entry.sender_place, entry.addressee_place>>, 2)
    ELSE conn

\* GeoAccumulate that starts every record with an empty Counter.
GeoAccumulate_Reset(conn, entry) ==
    DirectBonus(PairLoop(<<>>, CurrentLetterPlaces(entry), 1, 1), entry)

\* The body of "for entry in data" on place_connections.
GeoAccumulate(conn, entry) ==
    DirectBonus(PairLoop(conn, CurrentLetterPlaces(entry), 1, 1), entry)

SeqRange(s) == {s[j] : j \in 1..Len(s)}

\* any(p['name'] == place for p in entry.get('mentioned_places', []))
AnyMentioned(entry, place) ==
    \E j \in 1..Len(entry.mentioned_places) : entry.mentioned_places[j].name = place

\* PlaceInfoOf whose count "mentioned" leaves out the records that also have
\* the place as sender place or addressee place.
PlaceInfoOf_OnlyMentioned(d, ps) ==
    [place \in ps |->
        [total_mentions |->
            Cardinality({j \in 1..Len(d) : \/ d[j].sender_place = place
                                          \/ d[j].addressee_place = place
                                          \/ AnyMentioned(d[j], place)}),
         as_sender |-> Cardinality({j \in 1..Len(d) : d[j].sender_place = place}),
         as_addressee |-> Cardinality({j \in 1..Len(d) : d[j].addressee_place = place}),
         mentioned |-> Cardinality({j \in 1..Len(d) : /\ AnyMentioned(d[j], place)
                                                      /\ d[j].sender_place # place
                                                      /\ d[j].addressee_place # place})]]

\* place_info[place] for every place of all_places : four counts of the form
\* sum(1 for entry in data if ...).
PlaceInfoOf(d, ps) ==
    [place \in ps |->
        [total_mentions |->
            Cardinality({j \in 1..Len(d) : \/ d[j].sender_place = place
                                          \/ d[j].addressee_place = place
                                          \/ AnyMentioned(d[j], place)}),
         as_sender |-> Cardinality({j \in 1..Len(d) : d[j].sender_place = place}),
         as_addressee |-> Cardinality({j \in 1..Len(d) : d[j].addressee_place = place}),
         mentioned |-> Cardinality({j \in 1..Len(d) : AnyMentioned(d[j], place)})]]

\* Graph.add_edge(u, v, weight=w) : one undirected edge per pair of
\* endpoints ; adding it again overwrites the weight.
GraphAddEdge(g, u, v, weight) ==
    [nodes |-> g.nodes \cup {u, v},
     edges |-> ({u, v} :> weight) @@ g.edges]

\* "for (place1, place2), weight in place_connections.items(): G.add_edge"
RECURSIVE GraphAddEdges(_, _)
GraphAddEdges(g, conn) ==
    IF conn = <<>> THEN g
    ELSE GraphAddEdges(GraphAddEdge(g, Head(conn)[1][1], Head(conn)[1][2], Head(conn)[2]),
                       Tail(conn))

\* show_network_diagram : nodes from place_info, edges from place_connections.
PlaceGraphOf(conn, info) ==
    GraphAddEdges([nodes |-> DOMAIN info, edges |-> EmptyDict], conn)

GeoStep ==
    /\ pc = "geo"
    /\ i <= Len(data)
    /\ place_connections' = GeoAccumulate(place_connections, data[i])
    /\ all_places' = all_places \cup SeqRange(CurrentLetterPlaces(data[i]))
    /\ i' = i + 1
    /\ UNCHANGED <<data, dateVars, i2, pc, place_info, G_geo, netVars, topicVars, comVars, tempVars>>

\* The end of extract_place_connections, then show_geographical_network :
\* without a connection it warns and returns, else it draws the diagram.
GeoBuild ==
    /\ pc = "geo"
    /\ i > Len(data)
    /\ place_info' = PlaceInfoOf(data, all_places)
    /\ G_geo' = IF place_connections = <<>>
                THEN EmptyGraph
                ELSE PlaceGraphOf(place_connections, PlaceInfoOf(data, all_places))
    /\ pc' = "topics"
    /\ i' = 1
    /\ UNCHANGED <<data, dateVars, i2, place_connections, all_places, netVars, topicVars, comVars, tempVars>>

\* ------------------------------------------------------------------------
\* Topic view : extract_topics_keywords_data, show_topics_network
\* ------------------------------------------------------------------------
\* "for x in items: if x: x = x.strip(); found.add(x)" : the set found.
RECURSIVE StrippedSet(_)
StrippedSet(items) ==
    IF items = <<>> THEN {}
    ELSE (IF Truthy(Head(items)) THEN {Strip(Head(items))} ELSE {})
             \cup StrippedSet(Tail(items))

\* The same loop on the Counter : counter[x.strip()] += 1 for every truthy x.
RECURSIVE CountStripped(_, _)
CountStripped(counter, items) ==
    IF items = <<>> THEN counter
    ELSE CountStripped(IF Truthy(Head(items))
                       THEN Inc(counter, Strip(Head(items)), 1)
                       ELSE counter,
                       Tail(items))

\* topics of one letter : main_topics, then keywords.
EntryTopics(entry) == StrippedSet(entry.main_topics) \cup StrippedSet(entry.keywords)

\* Combinations2 that yields every pair in both orders.
Combinations2_BothOrders(s) ==
    {<<s[q[1]], s[q[2]]>> : q \in {r \in (1..Len(s)) \X (1..Len(s)) : r[1] # r[2]}}

\* itertools.combinations(sorted(topics), 2) : the pairs (s[a], s[b]), a < b.
Combinations2(s) ==
    {<<s[q[1]], s[q[2]]>> : q \in {r \in (1..Len(s)) \X (1..Len(s)) : r[1] < r[2]}}

\* cooccurrence[(a, b)] += 1 for every pair of one topic set.
RECURSIVE IncAll(_, _)
IncAll(counter, keys) ==
    IF keys = {} THEN counter
    ELSE LET k == CHOOSE x \in keys : TRUE
         IN  IncAll(Inc(counter, k, 1), keys \ {k})

\* "for topics in letters_topics: for a, b in combinations(sorted(topics), 2)"
RECURSIVE CooccurrenceOf(_, _)
CooccurrenceOf(counter, lt) ==
    IF lt = <<>> THEN counter
    ELSE CooccurrenceOf(IncAll(counter, Combinations2(Sorted(Head(lt)))), Tail(lt))

\* G.add_edge(a, b, weight=w) for every item of a dict keyed by pairs.
RECURSIVE GraphOfDict(_, _)
GraphOfDict(g, d) ==
    IF DOMAIN d = {} THEN g
    ELSE LET k == CHOOSE x \in DOMAIN d : TRUE
         IN  GraphOfDict(GraphAddEdge(g, k[1], k[2], d[k]),
                         [x \in (DOMAIN d) \ {k} |-> d[x]])

\* max(d.values())
MaxValue(d) == CHOOSE v \in {d[k] : k \in DOMAIN d} : \A k \in DOMAIN d : d[k] <= v

\* An edge added without attributes has no weight.
NoWeight == 0

\* filtered_edges of show_topics_network : the pairs counted at least
\* min_cooccurrence times.
TopicsFilteredEdges(cd, m) == {k \in DOMAIN cd : cd[k] >= m}

\* g.add_edges_from(es) for pairs without attributes : the endpoints become
\* nodes, an edge that is already there keeps its data.
GraphAddEdgesFrom(g, es) ==
    [nodes |-> g.nodes \cup UNION {{k[1], k[2]} : k \in es},
     edges |-> g.edges @@ [e \in {{k[1], k[2]} : k \in es} |-> NoWeight]]

\* TopicsFilteredGraph that draws whatever the threshold.
TopicsFilteredGraph_All(cd, m) == GraphAddEdgesFrom(EmptyGraph, DOMAIN cd)

\* G_filtered of show_topics_network ; without a filtered edge the function
\* warns and returns, and nothing is drawn.
TopicsFilteredGraph(cd, m) ==
    IF TopicsFilteredEdges(cd, m) = {} THEN EmptyGraph
    ELSE GraphAddEdgesFrom(EmptyGraph, TopicsFilteredEdges(cd, m))

TopicsStep ==
    /\ pc = "topics"
    /\ i <= Len(data)
    /\ all_topics' = CountStripped(CountStripped(all_topics, data[i].main_topics),
                                   data[i].keywords)
    /\ letters_topics' = IF EntryTopics(data[i]) # {}
                         THEN Append(letters_topics, EntryTopics(data[i]))
                         ELSE letters_topics
    /\ i' = i + 1
    /\ UNCHANGED <<data, dateVars, i2, pc, cooccurrence, G_topics, min_cooccurrence, G_topics_filtered,
                   netVars, geoVars, comVars, tempVars>>

\* The end of extract_topics_keywords_data, then show_topics_network : the
\* dict topics_data always has its three keys, so only an empty cooccurrence
\* stops the drawing.  The slider runs from 1 to the largest count.
TopicsBuild ==
    /\ pc = "topics"
    /\ i > Len(data)
    /\ cooccurrence' = CooccurrenceOf(EmptyDict, letters_topics)
    /\ G_topics' = GraphOfDict(EmptyGraph, CooccurrenceOf(EmptyDict, letters_topics))
    /\ LET cd == CooccurrenceOf(EmptyDict, letters_topics)
       IN  IF DOMAIN cd = {}
           THEN /\ min_cooccurrence' = 0
                /\ G_topics_filtered' = EmptyGraph
                /\ pc' = "commodity"
           ELSE \E m \in 1..MaxValue(cd) :
                    /\ min_cooccurrence' = m
                    /\ G_topics_filtered' = TopicsFilteredGraph(cd, m)
                    /\ pc' = "topics_shown"
    /\ i' = 1
    /\ UNCHANGED <<data, dateVars, i2, letters_topics, all_topics, netVars, geoVars, comVars, tempVars>>

\* show_topics_network returns : its slider value and G_filtered are gone.
TopicsReturn ==
    /\ pc = "topics_shown"
    /\ min_cooccurrence' = 0
    /\ G_topics_filtered' = EmptyGraph
    /\ pc' = "commodity"
    /\ UNCHANGED <<data, dateVars, i2, i, letters_topics, all_topics, cooccurrence, G_topics,
                   netVars, geoVars, comVars, tempVars>>

\* ------------------------------------------------------------------------
\* Commodity-place view : extract_commodity_place_data, show_commodity_analysis
\* ------------------------------------------------------------------------
\* entry_commodities : the stripped truthy keywords.
EntryCommodities(entry) == StrippedSet(entry.keywords)

\* EntryPlaces that forgets the sender's and the addressee's place.
EntryPlaces_MentionedOnly(entry) ==
    StrippedSet([j \in 1..Len(entry.mentioned_places) |-> entry.mentioned_places[j].name])

\* entry_places : the stripped truthy mentioned names, sender and addressee place.
EntryPlaces(entry) ==
    StrippedSet([j \in 1..Len(entry.mentioned_places) |-> entry.mentioned_places[j].name])
        \cup StrippedSet(<<entry.sender_place, entry.addressee_place>>)

\* "for commodity in entry_commodities: for place in entry_places:
\*      edges.append((commodity, place, 'commodity_place'))"
\* The sets are walked in sorted order.
RECURSIVE AppendPlaces(_, _, _)
AppendPlaces(list, commodity, ps) ==
    IF ps = <<>> THEN list
    ELSE AppendPlaces(Append(list, <<commodity, Head(ps), "commodity_place">>),
                      commodity, Tail(ps))

RECURSIVE AppendEdges(_, _, _)
AppendEdges(list, cs, ps) ==
    IF cs = <<>> THEN list
    ELSE AppendEdges(AppendPlaces(list, Head(cs), ps), Tail(cs), ps)

\* Counter(edges), in order of first occurrence.
RECURSIVE CounterOf(_, _)
CounterOf(counter, list) ==
    IF list = <<>> THEN counter
    ELSE CounterOf(OInc(counter, Head(list), 1), Tail(list))

\* G.add_node(n, node_type=t) for the commodities, then for the places (the
\* later call sets the attribute again), then one add_edge per counted edge.
RECURSIVE AddTypedEdges(_, _)
AddTypedEdges(g, counter) ==
    IF counter = <<>> THEN g
    ELSE LET k == Head(counter)[1]
             e == IF k[3] = "commodity_place"
                  THEN GraphAddEdge(g, k[1], k[2], Head(counter)[2])
                  ELSE g
         IN  AddTypedEdges([nodes |-> e.nodes, edges |-> e.edges,
                            node_type |-> g.node_type], Tail(counter))

BipartiteGraphOf(cd) ==
    AddTypedEdges([nodes |-> cd.commodities \cup cd.places,
                   edges |-> EmptyDict,
                   node_type |-> [n \in cd.commodities \cup cd.places |->
                                     IF n \in cd.places THEN "place" ELSE "commodity"]],
                  cd.edges)

EmptyTypedGraph == [nodes |-> {}, edges |-> EmptyDict, node_type |-> EmptyDict]

EmptyCommodityData == [edges |-> <<>>, commodities |-> {}, places |-> {}]

\* max(w for key, w in edges.items())
MaxCount(counter) ==
    CHOOSE v \in {counter[j][2] : j \in 1..Len(counter)} :
        \A j \in 1..Len(counter) : counter[j][2] <= v

\* filtered_edges of show_commodity_network : the (commodity, place) of the
\* commodity_place edges counted at least min_weight times.
CommodityFilteredEdges(counter, m) ==
    {<<counter[j][1][1], counter[j][1][2]>> :
        j \in {k \in 1..Len(counter) : /\ counter[k][2] >= m
                                        /\ counter[k][1][3] = "commodity_place"}}

\* G.remove_nodes_from(list(nx.isolates(G))) : a node on no edge goes.
RemoveIsolates(g) ==
    LET kept == {n \in g.nodes : \E e \in DOMAIN g.edges : n \in e}
    IN  [nodes |-> kept, edges |-> g.edges,
         node_type |-> [n \in kept |-> g.node_type[n]]]

\* G_filtered of show_commodity_network : all commodity and place nodes, the
\* filtered edges, then no isolated node ; without a filtered edge the
\* function warns and returns, and nothing is drawn.
CommodityFilteredGraph(cd, m) ==
    IF CommodityFilteredEdges(cd.edges, m) = {} THEN EmptyTypedGraph
    ELSE LET typed == [nodes |-> cd.commodities \cup cd.places,
                       edges |-> EmptyDict,
                       node_type |-> [n \in cd.commodities \cup cd.places |->
                                         IF n \in cd.places THEN "place" ELSE "commodity"]]
             added == GraphAddEdgesFrom(typed, CommodityFilteredEdges(cd.edges, m))
         IN  RemoveIsolates([nodes |-> added.nodes, edges |-> added.edges,
                             node_type |-> typed.node_type])

CommodityStep ==
    /\ pc = "commodity"
    /\ i <= Len(data)
    /\ commodities' = commodities \cup EntryCommodities(data[i])
    /\ places' = places \cup EntryPlaces(data[i])
    /\ edges' = AppendEdges(edges, Sorted(EntryCommodities(data[i])),
                            Sorted(EntryPlaces(data[i])))
    /\ i' = i + 1
    /\ UNCHANGED <<data, dateVars, i2, pc, commodity_data, G_commodity, min_weight, G_commodity_filtered,
                   netVars, geoVars, topicVars, tempVars>>

\* The end of extract_commodity_place_data, then
\* show_commodity_network_analysis : without an edge it warns and returns,
\* else show_commodity_network draws the edges the slider lets through ; the
\* slider runs from 1 to the largest count.
CommodityBuild ==
    /\ pc = "commodity"
    /\ i > Len(data)
    /\ LET cd == [edges |-> CounterOf(<<>>, edges),
                  commodities |-> commodities, places |-> places]
       IN  /\ commodity_data' = cd
           /\ G_commodity' = IF cd.edges = <<>> THEN EmptyTypedGraph
                             ELSE BipartiteGraphOf(cd)
           /\ IF cd.edges = <<>>
              THEN /\ min_weight' = 0
                   /\ G_commodity_filtered' = EmptyTypedGraph
                   /\ pc' = "temporal"
              ELSE \E m \in 1..MaxCount(cd.edges) :
                       /\ min_weight' = m
                       /\ G_commodity_filtered' = CommodityFilteredGraph(cd, m)
                       /\ pc' = "commodity_shown"
    /\ i' = 1
    /\ UNCHANGED <<data, dateVars, i2, edges, commodities, places, netVars, geoVars, topicVars, tempVars>>

\* show_commodity_network returns : its slider value and G_filtered are gone.
CommodityReturn ==
    /\ pc = "commodity_shown"
    /\ min_weight' = 0
    /\ G_commodity_filtered' = EmptyTypedGraph
    /\ pc' = "temporal"
    /\ UNCHANGED <<data, dateVars, i2, i, edges, commodities, places, commodity_data, G_commodity,
                   netVars, geoVars, topicVars, tempVars>>

\* ------------------------------------------------------------------------
\* Temporal view : extract_temporal_data, show_static_temporal_network
\* ------------------------------------------------------------------------
\* date_formats, in the order they are tried ; sep is the literal between the
\* three directives.
date_formats ==
    << [sep |-> ".", fields |-> <<"d", "m", "Y">>],
       [sep |-> "/", fields |-> <<"d", "m", "Y">>],
       [sep |-> "-", fields |-> <<"Y", "m", "d">>],
       [sep |-> "-", fields |-> <<"d", "m", "Y">>] >>

\* "date_obj = None" : no date ; the ordinal of a date is at least 1.
NoDate == 0

IsDigit(c) == Ord(c) >= 48 /\ Ord(c) <= 57

RECURSIVE Number(_, _)
Number(acc, s) == IF s = <<>> THEN acc ELSE Number(10 * acc + (Ord(Head(s)) - 48), Tail(s))

AllDigits(s) == \A j \in 1..Len(s) : IsDigit(s[j])

\* s.split(sep)
RECURSIVE Split(_, _, _)
Split(s, sep, cur) ==
    IF s = <<>> THEN <<cur>>
    ELSE IF Head(s) = sep THEN <<cur>> \o Split(Tail(s), sep, <<>>)
    ELSE Split(Tail(s), sep, Append(cur, Head(s)))

\* What a directive of strptime accepts ; -1 when the text does not match.
\*   %d : 3[0-1] | [1-2]\d | 0[1-9] | [1-9] | " "[1-9]
\*   %m : 1[0-2] | 0[1-9] | [1-9]
\*   %Y : \d\d\d\d
Directive(d, s) ==
    CASE d = "d" ->
            IF Len(s) = 2 /\ s[1] = " " /\ IsDigit(s[2]) /\ s[2] # "0" THEN Number(0, Tail(s))
            ELSE IF Len(s) \in {1, 2} /\ AllDigits(s) /\ Number(0, s) \in 1..31
                 THEN Number(0, s) ELSE -1
      [] d = "m" ->
            IF Len(s) \in {1, 2} /\ AllDigits(s) /\ Number(0, s) \in 1..12
            THEN Number(0, s) ELSE -1
      [] OTHER ->
            IF Len(s) = 4 /\ AllDigits(s) THEN Number(0, s) ELSE -1

IsLeap(y) == (y % 4 = 0 /\ y % 100 # 0) \/ y % 400 = 0

DaysInMonth(y, m) ==
    IF m = 2 THEN (IF IsLeap(y) THEN 29 ELSE 28)
    ELSE IF m \in {4, 6, 9, 11} THEN 30 ELSE 31

RECURSIVE DaysBeforeMonth(_, _)
DaysBeforeMonth(y, m) ==
    IF m = 1 THEN 0 ELSE DaysBeforeMonth(y, m - 1) + DaysInMonth(y, m - 1)

\* datetime.toordinal() : days since 01.01.0001, which is day 1.
ToOrdinal(y, m, d) ==
    365 * (y - 1) + ((y - 1) \div 4) - ((y - 1) \div 100) + ((y - 1) \div 400)
        + DaysBeforeMonth(y, m) + d

\* datetime.strptime(text, format) : the date as its ordinal, NoDate on ValueError.
Strptime(text, format) ==
    LET parts == Split(text, format.sep, <<>>)
    IN  IF Len(parts) # 3 THEN NoDate
        ELSE LET val(name) ==
                     Directive(name, parts[CHOOSE j \in 1..3 : format.fields[j] = name])
             IN  IF val("d") = -1 \/ val("m") = -1 \/ val("Y") = -1 THEN NoDate
                 ELSE IF val("Y") < 1 \/ val("d") > DaysInMonth(val("Y"), val("m")) THEN NoDate
                 ELSE ToOrdinal(val("Y"), val("m"), val("d"))

\* The loop over date_formats from format k on : first success, else NoDate.
RECURSIVE ParseDate(_, _)
ParseDate(date_str, k) ==
    IF k > Len(date_formats) THEN NoDate
    ELSE IF Strptime(Strip(date_str), date_formats[k]) # NoDate
         THEN Strptime(Strip(date_str), date_formats[k])
         ELSE ParseDate(date_str, k + 1)

\* TemporalAccumulate that gives up the letters read so far when a record
\* cannot be used.
TemporalAccumulate_Abort(ls, entry) ==
    IF Truthy(entry.sender_name) /\ Truthy(entry.addressee_name)
           /\ Truthy(entry.sender_date) /\ ParseDate(entry.sender_date, 1) # NoDate
    THEN Append(ls, [sender |-> Strip(entry.sender_name),
                     addressee |-> Strip(entry.addressee_name),
                     date |-> ParseDate(entry.sender_date, 1),
                     date_str |-> Strip(entry.sender_date)])
    ELSE <<>>

\* The body of "for entry in data" of extract_temporal_data.
TemporalAccumulate(ls, entry) ==
    IF Truthy(entry.sender_name) /\ Truthy(entry.addressee_name)
           /\ Truthy(entry.sender_date) /\ ParseDate(entry.sender_date, 1) # NoDate
    THEN Append(ls, [sender |-> Strip(entry.sender_name),
                     addressee |-> Strip(entry.addressee_name),
                     date |-> ParseDate(entry.sender_date, 1),
                     date_str |-> Strip(entry.sender_date)])
    ELSE ls

\* letters.sort(key=lambda x: x['date']) : stable.
RECURSIVE InsertByDate(_, _)
InsertByDate(sorted, letter) ==
    IF sorted = <<>> THEN <<letter>>
    ELSE IF sorted[Len(sorted)].date <= letter.date THEN Append(sorted, letter)
    ELSE Append(InsertByDate(SubSeq(sorted, 1, Len(sorted) - 1), letter),
                sorted[Len(sorted)])

\* SortByDate that leaves the letters in the order of the records.
SortByDate_Unsorted(sorted, rest) == sorted \o rest

RECURSIVE SortByDate(_, _)
SortByDate(sorted, rest) ==
    IF rest = <<>> THEN sorted ELSE SortByDate(InsertByDate(sorted, Head(rest)), Tail(rest))

MinDate(ls) == CHOOSE d \in {ls[j].date : j \in 1..Len(ls)} :
                   \A j \in 1..Len(ls) : d <= ls[j].date

MaxDate(ls) == CHOOSE d \in {ls[j].date : j \in 1..Len(ls)} :
                   \A j \in 1..Len(ls) : d >= ls[j].date

\* "date_range = None"
NoDateRange == [start |-> NoDate, end |-> NoDate, span_days |-> NoDate]

DateRangeOf(ls) ==
    IF ls # <<>>
    THEN [start |-> MinDate(ls), end |-> MaxDate(ls),
          span_days |-> MaxDate(ls) - MinDate(ls)]
    ELSE NoDateRange

\* WindowedLetters with the open interval : both bounds left out.
RECURSIVE WindowedLetters_Open(_, _, _)
WindowedLetters_Open(ls, window_start, window_end) ==
    IF ls = <<>> THEN <<>>
    ELSE (IF window_start < Head(ls).date /\ Head(ls).date < window_end
          THEN <<Head(ls)>> ELSE <<>>)
             \o WindowedLetters_Open(Tail(ls), window_start, window_end)

\* The letters with window_start <= date <= window_end, in list order.
RECURSIVE WindowedLetters(_, _, _)
WindowedLetters(ls, window_start, window_end) ==
    IF ls = <<>> THEN <<>>
    ELSE (IF window_start <= Head(ls).date /\ Head(ls).date <= window_end
          THEN <<Head(ls)>> ELSE <<>>)
             \o WindowedLetters(Tail(ls), window_start, window_end)

\* edge_counts[(sender, addressee)] += 1 for every letter of the window.
RECURSIVE EdgeCounts(_, _)
EdgeCounts(counter, ls) ==
    IF ls = <<>> THEN counter
    ELSE EdgeCounts(Inc(counter, <<Head(ls).sender, Head(ls).addressee>>, 1), Tail(ls))

\* The DiGraph of the window around center_date ; without a letter in the
\* window the function warns and returns before it builds a graph.
TemporalGraphOf(ls, center_date, window_size) ==
    LET windowed == WindowedLetters(ls, center_date - (window_size \div 2),
                                    center_date + (window_size \div 2))
    IN  IF windowed = <<>> THEN EmptyGraph
        ELSE DiGraphOf(EdgeCounts(EmptyDict, windowed))

\* No window chosen : show_static_temporal_network is not running.
NoWindow == [center_date |-> NoDate, window_size |-> 0]

\* Values of the window slider (30 to 365 in steps of 30) the model tries.
WindowSizes == {30, 60}

\* Dates the model offers to the date input, within [min_date, max_date].
CenterDates ==
    {ToOrdinal(1800, 1, 1), ToOrdinal(1800, 1, 10), ToOrdinal(1800, 1, 11),
     ToOrdinal(1800, 1, 15), ToOrdinal(1800, 1, 16), ToOrdinal(1800, 2, 10)}

TemporalStep ==
    /\ pc = "temporal"
    /\ i <= Len(data)
    /\ letters' = TemporalAccumulate(letters, data[i])
    /\ i' = i + 1
    /\ UNCHANGED <<data, dateVars, i2, pc, date_range, window, G_temporal,
                   netVars, geoVars, topicVars, comVars>>

\* The end of extract_temporal_data : sort, date range.
TemporalBuild ==
    /\ pc = "temporal"
    /\ i > Len(data)
    /\ letters' = SortByDate(<<>>, letters)
    /\ date_range' = DateRangeOf(SortByDate(<<>>, letters))
    /\ pc' = IF letters = <<>> THEN "done" ELSE "temporal_network"
    /\ UNCHANGED <<data, dateVars, i2, i, window, G_temporal, netVars, geoVars, topicVars, comVars>>

\* show_temporal_network with the static view : the user picks the window
\* size and a center date between the first and the last letter.
TemporalWindow ==
    /\ pc = "temporal_network"
    /\ \E window_size \in WindowSizes :
       \E selected_date \in {d \in CenterDates :
                                MinDate(letters) <= d /\ d <= MaxDate(letters)} :
          /\ window' = [center_date |-> selected_date, window_size |-> window_size]
          /\ G_temporal' = TemporalGraphOf(letters, selected_date, window_size)
    /\ pc' = "temporal_shown"
    /\ UNCHANGED <<data, dateVars, i2, i, letters, date_range, netVars, geoVars, topicVars, comVars>>

\* show_static_temporal_network returns : its window and graph are gone.
TemporalReturn ==
    /\ pc = "temporal_shown"
    /\ window' = NoWindow
    /\ G_temporal' = EmptyGraph
    /\ pc' = "done"
    /\ UNCHANGED <<data, dateVars, i2, i, letters, date_range, netVars, geoVars, topicVars, comVars>>

\* ------------------------------------------------------------------------
\* Metrics : the networkx calls of the views, on the graph of the state
\* ------------------------------------------------------------------------
\* A number shown as a fraction num / den.
Fraction(num, den) == [num |-> num, den |-> den]

\* nx.density of a DiGraph : m / (n (n - 1)), and 0 without an edge or with
\* at most one node. A self-loop is an edge like any other.
DiDensity(g) ==
    LET n == Cardinality(g.nodes)
        m == Cardinality(DOMAIN g.edges)
    IN  IF m = 0 \/ n <= 1 THEN Fraction(0, 1)
        ELSE Fraction(m, n * (n - 1))

\* nx.density of a Graph : 2 m / (n (n - 1)), and 0 without an edge or with
\* at most one node. A self-loop is an edge like any other.
Density(g) ==
    LET n == Cardinality(g.nodes)
        m == Cardinality(DOMAIN g.edges)
    IN  IF m = 0 \/ n <= 1 THEN Fraction(0, 1)
        ELSE Fraction(2 * m, n * (n - 1))

\* show_network_analysis has passed its "no node" return and shows metrics.
NetworkMetricsShown == pc = "network_shown" /\ G_filtered.nodes # {}

\* The density metric of show_network_analysis, computed with two nodes or more.
NetworkDensityShown == NetworkMetricsShown /\ Cardinality(G_filtered.nodes) > 1

\* show_topics_analysis has passed "if not cooccurrence_data" and shows metrics.
TopicsMetricsShown == pc = "topics_shown" /\ DOMAIN cooccurrence # {}

\* show_commodity_analysis has passed its "no node" return and shows metrics.
CommodityMetricsShown == pc = "commodity_shown" /\ G_commodity.nodes # {}

\* show_static_temporal_network has passed "if not windowed_letters" and
\* shows the statistics of the window.
TemporalMetricsShown == pc = "temporal_shown" /\ G_temporal.nodes # {}

\* The density the temporal statistics show : 0 with one node.
TemporalDensity(g) ==
    IF Cardinality(g.nodes) > 1 THEN DiDensity(g) ELSE Fraction(0, 1)

\* G.degree(node) of a Graph : the edges at the node, a self-loop twice.
Degree(g, node) ==
    Cardinality({e \in DOMAIN g.edges : node \in e})
        + (IF {node} \in DOMAIN g.edges THEN 1 ELSE 0)

\* nx.degree_centrality(G)[node] : the degree over n - 1 ; with at most one
\* node networkx gives every node the value 1.
DegreeCentrality(g, node) ==
    IF Cardinality(g.nodes) <= 1 THEN Fraction(1, 1)
    ELSE Fraction(Degree(g, node), Cardinality(g.nodes) - 1)

\* The nodes a breadth-first search reaches from the nodes seen.
RECURSIVE PlainBfs(_, _)
PlainBfs(g, seen) ==
    LET found == seen \cup {n \in g.nodes :
                               \E e \in DOMAIN g.edges : n \in e /\ e \cap seen # {}}
    IN  IF found = seen THEN seen ELSE PlainBfs(g, found)

\* nx.is_connected(G) of a graph with a node : the search from one node
\* reaches all of them.
IsConnected(g) == PlainBfs(g, {CHOOSE n \in g.nodes : TRUE}) = g.nodes

\* nx.number_connected_components(G) : one search per node not yet seen.
RECURSIVE NumberConnectedComponents(_, _)
NumberConnectedComponents(g, seen) ==
    IF g.nodes \subseteq seen THEN 0
    ELSE 1 + NumberConnectedComponents(g,
                 seen \cup PlainBfs(g, {CHOOSE n \in g.nodes \ seen : TRUE}))

\* The sum of the distances from the nodes at distance d (the frontier) to
\* the nodes the search has still to reach.
RECURSIVE SumOfDistances(_, _, _, _)
SumOfDistances(g, seen, frontier, d) ==
    LET next == {n \in g.nodes \ seen :
                    \E e \in DOMAIN g.edges : n \in e /\ e \cap frontier # {}}
    IN  IF next = {} THEN 0
        ELSE (d + 1) * Cardinality(next)
                 + SumOfDistances(g, seen \cup next, next, d + 1)

\* The sum over the nodes of sources of their distances to all nodes.
RECURSIVE SumOverSources(_, _)
SumOverSources(g, sources) ==
    IF sources = {} THEN 0
    ELSE LET s == CHOOSE n \in sources : TRUE
         IN  SumOfDistances(g, {s}, {s}, 0) + SumOverSources(g, sources \ {s})

\* nx.average_shortest_path_length(G) of a connected graph : the distances
\* over n (n - 1), and 0 with one node.
AverageShortestPathLength(g) ==
    IF Cardinality(g.nodes) = 1 THEN Fraction(0, 1)
    ELSE Fraction(SumOverSources(g, g.nodes),
                  Cardinality(g.nodes) * (Cardinality(g.nodes) - 1))

\* A networkx call that raises : the metric is not shown and the view stops.
Raised(exception) == [label |-> exception, value |-> Fraction(0, 1)]

\* The fourth metric of show_topics_analysis that computes the average
\* distance without asking whether the graph is connected.
PathMetric_Unguarded(g) ==
    IF g.nodes = {} THEN Raised("NetworkXPointlessConcept")
    ELSE IF ~IsConnected(g) THEN Raised("NetworkXError")
    ELSE [label |-> "avg_path", value |-> AverageShortestPathLength(g)]

\* The fourth metric of show_topics_analysis : the average distance of a
\* connected graph, else the number of components ; nx.is_connected raises
\* NetworkXPointlessConcept on a graph without node.
PathMetric(g) ==
    IF g.nodes = {} THEN Raised("NetworkXPointlessConcept")
    ELSE IF IsConnected(g)
    THEN [label |-> "avg_path", value |-> AverageShortestPathLength(g)]
    ELSE [label |-> "components",
          value |-> Fraction(NumberConnectedComponents(g, {}), 1)]

\* ------------------------------------------------------------------------
\* The script runs again
\* ------------------------------------------------------------------------
\* Rerun that calls extract_commodity_place_data with the lists and sets of
\* the run before.
Rerun_KeepAccumulators ==
    /\ pc = "done"
    /\ pc' = "network"
    /\ i' = 1
    /\ edge_weights' = EmptyDict
    /\ G' = EmptyGraph
    /\ place_connections' = <<>>
    /\ all_places' = {}
    /\ place_info' = EmptyDict
    /\ G_geo' = EmptyGraph
    /\ letters_topics' = <<>>
    /\ all_topics' = EmptyDict
    /\ cooccurrence' = EmptyDict
    /\ G_topics' = EmptyGraph
    /\ commodity_data' = EmptyCommodityData
    /\ G_commodity' = EmptyTypedGraph
    /\ letters' = <<>>
    /\ date_range' = NoDateRange
    /\ UNCHANGED <<data, dateVars, i2, edges, commodities, places, min_connections, G_filtered,
                   min_cooccurrence, G_topics_filtered, min_weight,
                   G_commodity_filtered, window, G_temporal>>

\* After an interaction Streamlit runs the script again from the top, on the
\* same cached data : every view function is called anew and starts with
\* fresh locals.
Rerun ==
    /\ pc = "done"
    /\ pc' = "network"
    /\ i' = 1
    /\ edge_weights' = EmptyDict
    /\ G' = EmptyGraph
    /\ place_connections' = <<>>
    /\ all_places' = {}
    /\ place_info' = EmptyDict
    /\ G_geo' = EmptyGraph
    /\ letters_topics' = <<>>
    /\ all_topics' = EmptyDict
    /\ cooccurrence' = EmptyDict
    /\ G_topics' = EmptyGraph
    /\ edges' = <<>>
    /\ commodities' = {}
    /\ places' = {}
    /\ commodity_data' = EmptyCommodityData
    /\ G_commodity' = EmptyTypedGraph
    /\ letters' = <<>>
    /\ date_range' = NoDateRange
    /\ UNCHANGED <<data, dateVars, i2, min_connections, G_filtered, min_cooccurrence,
                   G_topics_filtered, min_weight, G_commodity_filtered,
                   window, G_temporal>>

Init ==
    /\ data \in Corpora
    /\ pc = "network"
    /\ i = 1
    /\ i2 = 1
    /\ date_format = 1
    /\ date_obj = NoDate
    /\ edge_weights = EmptyDict
    /\ G = EmptyGraph
    /\ min_connections = 0
    /\ G_filtered = EmptyGraph
    /\ place_connections = <<>>
    /\ all_places = {}
    /\ place_info = EmptyDict
    /\ G_geo = EmptyGraph
    /\ letters_topics = <<>>
    /\ all_topics = EmptyDict
    /\ cooccurrence = EmptyDict
    /\ G_topics = EmptyGraph
    /\ min_cooccurrence = 0
    /\ G_topics_filtered = EmptyGraph
    /\ edges = <<>>
    /\ commodities = {}
    /\ places = {}
    /\ commodity_data = EmptyCommodityData
    /\ G_commodity = EmptyTypedGraph
    /\ min_weight = 0
    /\ G_commodity_filtered = EmptyTypedGraph
    /\ letters = <<>>
    /\ date_range = NoDateRange
    /\ window = NoWindow
    /\ G_temporal = EmptyGraph

Next ==
    \/ NetworkStep
    \/ NetworkBuild
    \/ NetworkReturn
    \/ GeoStep
    \/ GeoBuild
    \/ TopicsStep
    \/ TopicsBuild
    \/ TopicsReturn
    \/ CommodityStep
    \/ CommodityBuild
    \/ CommodityReturn
    \/ TemporalStep
    \/ TemporalBuild
    \/ TemporalWindow
    \/ TemporalReturn
    \/ Rerun

Spec == Init /\ [][Next]_vars

\* ------------------------------------------------------------------------
\* Two sessions at once : Streamlit runs the script of each session in a
\* thread of its own.  One thread is in extract_topics_keywords_data (its
\* loop at i), the other in extract_commodity_place_data (its loop at i2),
\* on the same cached records ; the scheduler picks which one does its next
\* loop body.
\* ------------------------------------------------------------------------
\* Records with topics, keywords or places, which give both loops work.
InterleavedCorpora ==
    ListsUpTo(PlaceRecords, MaxRecords) \cup ListsUpTo(TopicRecords, MaxRecords)

InterleavedInit ==
    /\ data \in InterleavedCorpora
    /\ pc = "interleaved"
    /\ i = 1
    /\ i2 = 1
    /\ date_format = 1
    /\ date_obj = NoDate
    /\ edge_weights = EmptyDict
    /\ G = EmptyGraph
    /\ min_connections = 0
    /\ G_filtered = EmptyGraph
    /\ place_connections = <<>>
    /\ all_places = {}
    /\ place_info = EmptyDict
    /\ G_geo = EmptyGraph
    /\ letters_topics = <<>>
    /\ all_topics = EmptyDict
    /\ cooccurrence = EmptyDict
    /\ G_topics = EmptyGraph
    /\ min_cooccurrence = 0
    /\ G_topics_filtered = EmptyGraph
    /\ edges = <<>>
    /\ commodities = {}
    /\ places = {}
    /\ commodity_data = EmptyCommodityData
    /\ G_commodity = EmptyTypedGraph
    /\ min_weight = 0
    /\ G_commodity_filtered = EmptyTypedGraph
    /\ letters = <<>>
    /\ date_range = NoDateRange
    /\ window = NoWindow
    /\ G_temporal = EmptyGraph

\* One body of "for entry in data" of extract_topics_keywords_data.
TopicsPassStep ==
    /\ pc = "interleaved"
    /\ i <= Len(data)
    /\ all_topics' = CountStripped(CountStripped(all_topics, data[i].main_topics),
                                   data[i].keywords)
    /\ letters_topics' = IF EntryTopics(data[i]) # {}
                         THEN Append(letters_topics, EntryTopics(data[i]))
                         ELSE letters_topics
    /\ i' = i + 1
    /\ UNCHANGED <<data, dateVars, pc, i2, cooccurrence, G_topics, min_cooccurrence,
                   G_topics_filtered, netVars, geoVars, comVars, tempVars>>

\* The end of extract_topics_keywords_data and the graph of the topic view.
TopicsPassBuild ==
    /\ pc = "interleaved"
    /\ i = Len(data) + 1
    /\ cooccurrence' = CooccurrenceOf(EmptyDict, letters_topics)
    /\ G_topics' = GraphOfDict(EmptyGraph, CooccurrenceOf(EmptyDict, letters_topics))
    /\ i' = i + 1
    /\ UNCHANGED <<data, dateVars, pc, i2, letters_topics, all_topics, min_cooccurrence,
                   G_topics_filtered, netVars, geoVars, comVars, tempVars>>

\* CommodityPassStep that takes the topics the other thread has counted so
\* far as keywords of its own.
CommodityPassStep_Shared ==
    /\ pc = "interleaved"
    /\ i2 <= Len(data)
    /\ commodities' = commodities \cup EntryCommodities(data[i2]) \cup DOMAIN all_topics
    /\ places' = places \cup EntryPlaces(data[i2])
    /\ edges' = AppendEdges(edges,
                            Sorted(EntryCommodities(data[i2]) \cup DOMAIN all_topics),
                            Sorted(EntryPlaces(data[i2])))
    /\ i2' = i2 + 1
    /\ UNCHANGED <<data, dateVars, pc, i, commodity_data, G_commodity, min_weight,
                   G_commodity_filtered, netVars, geoVars, topicVars, tempVars>>

\* One body of "for entry in data" of extract_commodity_place_data.
CommodityPassStep ==
    /\ pc = "interleaved"
    /\ i2 <= Len(data)
    /\ commodities' = commodities \cup EntryCommodities(data[i2])
    /\ places' = places \cup EntryPlaces(data[i2])
    /\ edges' = AppendEdges(edges, Sorted(EntryCommodities(data[i2])),
                            Sorted(EntryPlaces(data[i2])))
    /\ i2' = i2 + 1
    /\ UNCHANGED <<data, dateVars, pc, i, commodity_data, G_commodity, min_weight,
                   G_commodity_filtered, netVars, geoVars, topicVars, tempVars>>

\* The end of extract_commodity_place_data and the graph of the commodity
\* view.
CommodityPassBuild ==
    /\ pc = "interleaved"
    /\ i2 = Len(data) + 1
    /\ LET cd == [edges |-> CounterOf(<<>>, edges),
                  commodities |-> commodities, places |-> places]
       IN  /\ commodity_data' = cd
           /\ G_commodity' = IF cd.edges = <<>> THEN EmptyTypedGraph
                             ELSE BipartiteGraphOf(cd)
    /\ i2' = i2 + 1
    /\ UNCHANGED <<data, dateVars, pc, i, edges, commodities, places, min_weight,
                   G_commodity_filtered, netVars, geoVars, topicVars, tempVars>>

InterleavedNext ==
    \/ TopicsPassStep
    \/ TopicsPassBuild
    \/ CommodityPassStep
    \/ CommodityPassBuild

InterleavedSpec == InterleavedInit /\ [][InterleavedNext]_vars

\* ------------------------------------------------------------------------
\* The date of one record : the loop over date_formats of
\* extract_temporal_data, one strptime call per step
\* ------------------------------------------------------------------------
Days == {<<"1", "5">>, <<"1">>, <<"3", "1">>, <<"3", "2">>}
Months == {<<"0", "1">>, <<"2">>, <<"1", "3">>}
Years == {<<"1", "8", "0", "0">>, <<"1", "8", "0">>}
Separators == {".", "/", "-"}
Paddings == {<<>>, <<" ">>}

\* Day, month and year joined by one separator, the day or the year first,
\* with or without a blank around ; and texts that are no date at all.
DateStrings ==
    {q[6] \o q[1] \o <<q[4]>> \o q[2] \o <<q[4]>> \o q[3] \o q[7] :
        q \in Days \X Months \X Years \X Separators \X {"dmY"} \X Paddings \X Paddings}
    \cup {q[6] \o q[3] \o <<q[4]>> \o q[2] \o <<q[4]>> \o q[1] \o q[7] :
        q \in Days \X Months \X Years \X Separators \X {"Ymd"} \X Paddings \X Paddings}
    \cup {Dbad, Blank, <<>>, None}

DateInit ==
    /\ data \in {<<Letter(X, Y, text)>> : text \in DateStrings}
    /\ pc = "date_loop"
    /\ i = 1
    /\ i2 = 1
    /\ date_format = 1
    /\ date_obj = NoDate
    /\ edge_weights = EmptyDict
    /\ G = EmptyGraph
    /\ min_connections = 0
    /\ G_filtered = EmptyGraph
    /\ place_connections = <<>>
    /\ all_places = {}
    /\ place_info = EmptyDict
    /\ G_geo = EmptyGraph
    /\ letters_topics = <<>>
    /\ all_topics = EmptyDict
    /\ cooccurrence = EmptyDict
    /\ G_topics = EmptyGraph
    /\ min_cooccurrence = 0
    /\ G_topics_filtered = EmptyGraph
    /\ edges = <<>>
    /\ commodities = {}
    /\ places = {}
    /\ commodity_data = EmptyCommodityData
    /\ G_commodity = EmptyTypedGraph
    /\ min_weight = 0
    /\ G_commodity_filtered = EmptyTypedGraph
    /\ letters = <<>>
    /\ date_range = NoDateRange
    /\ window = NoWindow
    /\ G_temporal = EmptyGraph

\* "if sender and addressee and date_str" fails : the record is passed over.
SkipRecord ==
    /\ pc = "date_loop"
    /\ ~(Truthy(data[i].sender_name) /\ Truthy(data[i].addressee_name)
            /\ Truthy(data[i].sender_date))
    /\ pc' = "date_done"
    /\ UNCHANGED <<data, i, i2, dateVars, netVars, geoVars, topicVars, comVars, tempVars>>

\* TryFormat that goes on to the next format after a success.
TryFormat_NoBreak ==
    /\ pc = "date_loop"
    /\ Truthy(data[i].sender_name) /\ Truthy(data[i].addressee_name)
    /\ Truthy(data[i].sender_date)
    /\ date_format <= Len(date_formats)
    /\ LET parsed == Strptime(Strip(data[i].sender_date), date_formats[date_format])
       IN  /\ date_obj' = IF parsed # NoDate THEN parsed ELSE date_obj
           /\ date_format' = date_format + 1
           /\ pc' = IF date_format = Len(date_formats) THEN "date_parsed" ELSE pc
    /\ UNCHANGED <<data, i, i2, netVars, geoVars, topicVars, comVars, tempVars>>

\* One turn of "for date_format in date_formats" : strptime of the trimmed
\* text ; a success leaves the loop (break), a ValueError goes on to the
\* next format (continue), and after the last format the loop ends.
TryFormat ==
    /\ pc = "date_loop"
    /\ Truthy(data[i].sender_name) /\ Truthy(data[i].addressee_name)
    /\ Truthy(data[i].sender_date)
    /\ date_format <= Len(date_formats)
    /\ LET parsed == Strptime(Strip(data[i].sender_date), date_formats[date_format])
       IN  IF parsed # NoDate
           THEN /\ date_obj' = parsed
                /\ date_format' = date_format
                /\ pc' = "date_parsed"
           ELSE /\ date_obj' = date_obj
                /\ date_format' = date_format + 1
                /\ pc' = IF date_format = Len(date_formats) THEN "date_parsed" ELSE pc
    /\ UNCHANGED <<data, i, i2, netVars, geoVars, topicVars, comVars, tempVars>>

\* "if date_obj: letters.append(...)" : a record without a date is left out.
KeepLetter ==
    /\ pc = "date_parsed"
    /\ letters' = IF date_obj # NoDate
                  THEN Append(letters, [sender |-> Strip(data[i].sender_name),
                                        addressee |-> Strip(data[i].addressee_name),
                                        date |-> date_obj,
                                        date_str |-> Strip(data[i].sender_date)])
                  ELSE letters
    /\ pc' = "date_done"
    /\ UNCHANGED <<data, i, i2, dateVars, date_range, window, G_temporal,
                   netVars, geoVars, topicVars, comVars>>

DateNext ==
    \/ SkipRecord
    \/ TryFormat
    \/ KeepLetter

DateSpec == DateInit /\ [][DateNext]_vars

\* ------------------------------------------------------------------------
\* Properties
\* ------------------------------------------------------------------------
\* A name or place that is there : neither missing nor the empty string.
Present(s) == s # None /\ Len(s) > 0

BothPresent(entry) == Present(entry.sender_name) /\ Present(entry.addressee_name)

\* The number of records among the first n that satisfy P.
CountFirst(n, P(_)) == Cardinality({j \in 1..n : P(data[j])})

\* Weight of the directed edge s -> a, 0 without such an edge.
Weight(g, s, a) == IF <<s, a>> \in DOMAIN g.edges THEN g.edges[<<s, a>>] ELSE 0

\* Weight of the undirected edge {p, q}, 0 without such an edge.
UWeight(g, p, q) == IF {p, q} \in DOMAIN g.edges THEN g.edges[{p, q}] ELSE 0

PresentNames ==
    {n \in {data[j].sender_name : j \in 1..Len(data)}
             \cup {data[j].addressee_name : j \in 1..Len(data)} : Present(n)}

\* C1 : the edge weights of the correspondent graph, before any filtering,
\* add up to the number of records that have both a sender name and an
\* addressee name ; while the loop runs, to the number of such records among
\* those already read.
C1_WeightSumIsRecordCount ==
    /\ pc = "network" => SumValues(edge_weights) = CountFirst(i - 1, BothPresent)
    /\ pc # "network" => SumValues(G.edges) = CountFirst(Len(data), BothPresent)

\* C1 : a graph built from three records of which one lacks a name.
C1_Witness ==
    /\ pc = "network_shown"
    /\ Len(data) = 3
    /\ SumValues(G.edges) = 2
    /\ \E j \in 1..3 : ~BothPresent(data[j])

\* C2 : the weight of s -> a is the number of records sent by s to a, for
\* every ordered pair of names ; a -> s is counted on its own.
C2_DirectedWeights ==
    pc # "network" =>
        \A names \in {PresentNames} :
            /\ \A s \in names : \A a \in names :
                  Weight(G, s, a) = CountFirst(Len(data),
                      LAMBDA e : e.sender_name = s /\ e.addressee_name = a)
            /\ DOMAIN G.edges \subseteq names \X names

\* C2 : two letters X to Y and one letter Y to X.
C2_Witness ==
    /\ pc = "network_shown"
    /\ Weight(G, X, Y) = 2
    /\ Weight(G, Y, X) = 1

\* The node labels of the graphs of the five views.
AllNodes == G.nodes \cup G_geo.nodes \cup G_topics.nodes \cup G_commodity.nodes
                \cup G_temporal.nodes

\* C3 : in every graph of every view each node label is its own trimmed form.
C3_NodeLabelsTrimmed == \A n \in AllNodes : Strip(n) = n

\* The labels of the extractors' node sets and frequency tables.
AllLabels == AllNodes \cup all_places \cup DOMAIN place_info \cup DOMAIN all_topics
                 \cup commodities \cup places
                 \cup {letters[j].sender : j \in 1..Len(letters)}
                 \cup {letters[j].addressee : j \in 1..Len(letters)}

\* C4 : no node, edge end or table key is empty after trimming.
C4_NoEmptyLabel == \A n \in AllLabels : Strip(n) # <<>>

\* C5 : no graph of any view has an edge from a node to itself.
C5_NoSelfLoop ==
    /\ \A k \in DOMAIN G.edges \cup DOMAIN G_temporal.edges \cup DOMAIN edge_weights
                  \cup DOMAIN cooccurrence \cup OKeys(place_connections)
                  \cup OKeys(commodity_data.edges) \cup SeqRange(edges) : k[1] # k[2]
    /\ \A e \in DOMAIN G_geo.edges \cup DOMAIN G_topics.edges \cup DOMAIN G_commodity.edges :
          Cardinality(e) = 2

\* C6 : every edge of the commodity-place graph joins a node tagged
\* commodity and a node tagged place, and no label has both kinds.
C6_StrictlyBipartite ==
    /\ \A e \in DOMAIN G_commodity.edges :
          {G_commodity.node_type[n] : n \in e} = {"commodity", "place"}
    /\ \A k \in OKeys(commodity_data.edges) : k[1] \in commodities /\ k[2] \in places
    /\ commodities \cap places = {}

\* The distinct commodities of a record : its keywords, trimmed.
DistinctCommodities(entry) ==
    {Strip(entry.keywords[j]) : j \in {k \in 1..Len(entry.keywords) : Present(entry.keywords[k])}}

\* The distinct places of a record : sender place, addressee place and
\* mentioned names, trimmed.
DistinctPlaces(entry) ==
    {Strip(x) : x \in {y \in {entry.sender_place, entry.addressee_place}
                              \cup {entry.mentioned_places[j].name :
                                       j \in 1..Len(entry.mentioned_places)} : Present(y)}}

\* Sum of |commodities| * |places| over the first n records.
RECURSIVE ProductSum(_)
ProductSum(n) ==
    IF n = 0 THEN 0
    ELSE ProductSum(n - 1)
             + Cardinality(DistinctCommodities(data[n])) * Cardinality(DistinctPlaces(data[n]))

\* C7 : a record with C distinct commodities and P distinct places adds
\* C * P increments, and the weight of (c, p) is the number of records
\* whose commodities hold c and whose places hold p.
C7_CrossProduct ==
    /\ pc = "commodity" => Len(edges) = ProductSum(i - 1)
    /\ pc \in {"commodity_shown", "temporal", "temporal_network", "temporal_shown", "done"} =>
          /\ \A cs \in {[j \in 1..Len(data) |-> DistinctCommodities(data[j])]} :
             \A ps \in {[j \in 1..Len(data) |-> DistinctPlaces(data[j])]} :
                /\ \A k \in OKeys(commodity_data.edges) :
                      OGet(commodity_data.edges, k) =
                          Cardinality({j \in 1..Len(data) : k[1] \in cs[j] /\ k[2] \in ps[j]})
                /\ \A j \in 1..Len(data) : \A c \in cs[j] : \A p \in ps[j] :
                      <<c, p, "commodity_place">> \in OKeys(commodity_data.edges)
          /\ Len(edges) = ProductSum(Len(data))

\* C7 : a record with two commodities and three places has been counted, and
\* an edge has weight 2.
C7_Witness ==
    /\ pc = "temporal"
    /\ \E j \in 1..Len(data) :
          Cardinality(DistinctCommodities(data[j])) = 2
              /\ Cardinality(DistinctPlaces(data[j])) = 3
    /\ \E k \in OKeys(commodity_data.edges) : OGet(commodity_data.edges, k) = 2

\* The places of a record as a set.
RecordPlaces(entry) == SeqRange(CurrentLetterPlaces(entry))

\* Sender place p and addressee place q, in either order.
DirectBetween(entry, p, q) ==
    {entry.sender_place, entry.addressee_place} = {p, q}

\* C8 : the places of a record are deduplicated before pairing, so a pair
\* of distinct places gets the generic +1 at most once per record : its
\* total weight is at most one per record that names both, plus 2 per
\* record that was sent between them.
C8_GenericOncePerRecord ==
    pc # "geo" =>
        \A p \in all_places : \A q \in all_places \ {p} :
            OGet(place_connections, <<p, q>>) + OGet(place_connections, <<q, p>>)
                <= CountFirst(Len(data), LAMBDA e : {p, q} \subseteq RecordPlaces(e))
                     + 2 * CountFirst(Len(data), LAMBDA e : DirectBetween(e, p, q))

\* The record of the scenario : sender place p, addressee place q, one
\* mentioned place r, all different.
IsScenario(entry, p, q, r) ==
    /\ entry.sender_place = p
    /\ entry.addressee_place = q
    /\ Len(entry.mentioned_places) = 1
    /\ entry.mentioned_places[1].name = r

\* C9 : a record sent from place p to another place q adds 2 to (p, q) on
\* top of the generic 1 ; the record p, q, [r] alone gives (p, q) 3,
\* (p, r) 1, (q, r) 1 and nothing else.
C9_DirectBonus ==
    pc # "geo" =>
        /\ \A p \in all_places : \A q \in all_places \ {p} :
              OGet(place_connections, <<p, q>>) >=
                  3 * CountFirst(Len(data), LAMBDA e : e.sender_place = p
                                                        /\ e.addressee_place = q)
        /\ \A p \in all_places : \A q \in all_places \ {p} : \A r \in all_places \ {p, q} :
              (Len(data) = 1 /\ IsScenario(data[1], p, q, r)) =>
                  /\ OKeys(place_connections) = {<<p, q>>, <<p, r>>, <<q, r>>}
                  /\ OGet(place_connections, <<p, q>>) = 3
                  /\ OGet(place_connections, <<p, r>>) = 1
                  /\ OGet(place_connections, <<q, r>>) = 1
                  /\ DOMAIN G_geo.edges = {{p, q}, {p, r}, {q, r}}
                  /\ UWeight(G_geo, p, q) = 3
                  /\ UWeight(G_geo, p, r) = 1
                  /\ UWeight(G_geo, q, r) = 1

\* C9 : the scenario record A, B, [C] has been extracted and drawn.
C9_Witness ==
    /\ pc = "topics"
    /\ Len(data) = 1
    /\ IsScenario(data[1], A, B, C)
    /\ UWeight(G_geo, A, B) = 3
    /\ UWeight(G_geo, A, C) = 1
    /\ UWeight(G_geo, B, C) = 1

\* C10 : the place graph has one edge per pair of places, whatever the
\* order of the two names in the records, and its weight is the total of
\* the increments of the pair.
C10_UndirectedTotals ==
    pc \notin {"network", "network_shown", "geo"} =>
        \A p \in all_places : \A q \in all_places \ {p} :
            /\ ~(<<p, q>> \in OKeys(place_connections) /\ <<q, p>> \in OKeys(place_connections))
            /\ UWeight(G_geo, p, q) =
                   OGet(place_connections, <<p, q>>) + OGet(place_connections, <<q, p>>)

\* The number of records of data that have place p in the given role.
RECURSIVE CountRecords(_, _, _)
CountRecords(n, p, role) ==
    IF n = 0 THEN 0
    ELSE CountRecords(n - 1, p, role)
         + (LET e == data[n]
                named == \E m \in SeqRange(e.mentioned_places) : m.name = p
                hit == CASE role = "any" -> e.sender_place = p \/ e.addressee_place = p \/ named
                         [] role = "sender" -> e.sender_place = p
                         [] role = "addressee" -> e.addressee_place = p
                         [] role = "named" -> named
                         [] role = "only_named" ->
                                named /\ e.sender_place # p /\ e.addressee_place # p
            IN  IF hit THEN 1 ELSE 0)

\* extract_place_connections has returned and the next view is at work.
GeoDone == pc = "topics"

\* C11 as stated : the fourth count of a place is the number of records that
\* name it in mentioned_places and have it neither as sender place nor as
\* addressee place.
C11_OnlyMentionedCount ==
    GeoDone =>
        \A p \in DOMAIN place_info :
            place_info[p].mentioned = CountRecords(Len(data), p, "only_named")

\* C11 : the Place Info table has one row per place, with four counts over
\* the record set : the records that have the place as sender place, as
\* addressee place or in mentioned_places ; the records that have it as
\* sender place ; the records that have it as addressee place ; and the
\* records that name it in mentioned_places, whether or not the same record
\* also has it as sender place or addressee place.
C11_PlaceInfoCounts ==
    GeoDone =>
        /\ DOMAIN place_info = all_places
        /\ \A p \in DOMAIN place_info :
              /\ place_info[p].total_mentions = CountRecords(Len(data), p, "any")
              /\ place_info[p].as_sender = CountRecords(Len(data), p, "sender")
              /\ place_info[p].as_addressee = CountRecords(Len(data), p, "addressee")
              /\ place_info[p].mentioned = CountRecords(Len(data), p, "named")

\* C11 : a table with a place that a record has both as sender place and in
\* mentioned_places, and with another place that a record only names.
C11_Witness ==
    /\ pc = "topics"
    /\ \E p \in DOMAIN place_info :
          /\ place_info[p].mentioned = 1
          /\ CountRecords(Len(data), p, "only_named") = 0
          /\ place_info[p].as_sender = 2
          /\ place_info[p].total_mentions = 2
    /\ \E q \in DOMAIN place_info :
          /\ place_info[q].mentioned = 1
          /\ CountRecords(Len(data), q, "only_named") = 1
          /\ place_info[q].total_mentions = 1

\* extract_topics_keywords_data has returned : the topic graph is drawn, or
\* the next view is at work.
TopicsDone == pc \in {"topics_shown", "commodity"}

\* The distinct trimmed strings of main_topics and keywords of one record.
DistinctTopics(entry) ==
    {Strip(t) : t \in {x \in SeqRange(entry.main_topics) \cup SeqRange(entry.keywords) :
                           Present(x)}}

\* C(n, 2)
Choose2(n) == (n * (n - 1)) \div 2

RECURSIVE SumChoose2(_)
SumChoose2(n) ==
    IF n = 0 THEN 0
    ELSE SumChoose2(n - 1) + Choose2(Cardinality(DistinctTopics(data[n])))

\* C12 : a record whose distinct trimmed topic set has N elements adds
\* C(N, 2) increments to the co-occurrence counts, +1 for each unordered
\* pair of its topics ; a pair is stored under its sorted key only, never
\* under both (a, b) and (b, a) ; one record with the topic set {A, B, C}
\* gives exactly (A,B), (A,C), (B,C) with 1 each, repeated strings or not.
C12_PairIncrements ==
    TopicsDone =>
        \A ts \in {[j \in 1..Len(data) |-> DistinctTopics(data[j])]} :
            /\ SumValues(cooccurrence) = SumChoose2(Len(data))
            /\ \A k \in DOMAIN cooccurrence :
                  /\ StrLess(k[1], k[2])
                  /\ <<k[2], k[1]>> \notin DOMAIN cooccurrence
                  /\ cooccurrence[k] =
                         Cardinality({j \in 1..Len(data) : {k[1], k[2]} \subseteq ts[j]})
            /\ \A j \in 1..Len(data) : \A a \in ts[j] : \A b \in ts[j] \ {a} :
                  <<a, b>> \in DOMAIN cooccurrence \/ <<b, a>> \in DOMAIN cooccurrence
            /\ (Len(data) = 1 /\ ts[1] = {A, B, C}) =>
                   cooccurrence = (<<A, B>> :> 1) @@ (<<A, C>> :> 1) @@ (<<B, C>> :> 1)

\* C12 : the pairs of one record that lists B twice and A in both lists.
C12_Witness ==
    /\ pc = "commodity"
    /\ Len(data) = 1
    /\ data[1].main_topics = <<B, A, B>>
    /\ data[1].keywords = <<C, A>>
    /\ DOMAIN cooccurrence = {<<A, B>>, <<A, C>>, <<B, C>>}
    /\ SumValues(cooccurrence) = 3

\* C13 : the frequency of a topic is the number of records whose topics
\* contain it ; one record counts once for a topic, also when it lists the
\* topic in main_topics and in keywords, or twice in one list.
C13_FrequencyCountsRecords ==
    TopicsDone =>
        \A t \in DOMAIN all_topics :
            all_topics[t] = Cardinality({j \in 1..Len(data) : t \in DistinctTopics(data[j])})

\* The timeline entries dated within h days of the date d, both ends included.
InWindow(d, h) == {j \in 1..Len(letters) : d - h <= letters[j].date /\ letters[j].date <= d + h}

\* The directed graph of the timeline entries of a set of positions : one
\* edge per (sender, addressee), weighted by the number of entries.
WindowGraph(js) ==
    LET pairs == {<<letters[j].sender, letters[j].addressee>> : j \in js}
    IN  [nodes |-> {letters[j].sender : j \in js} \cup {letters[j].addressee : j \in js},
         edges |-> [e \in pairs |->
                       Cardinality({j \in js : <<letters[j].sender, letters[j].addressee>> = e})]]

\* The timeline of the three letters 01.01.1800 X to Y, 15.01.1800 X to Y,
\* 10.02.1800 Y to X.
ScenarioTimeline ==
    /\ pc \in {"temporal_network", "temporal_shown", "done"}
    /\ Len(letters) = 3
    /\ \A j \in 1..3 : {letters[j].sender, letters[j].addressee} = {X, Y}
    /\ letters[1].date = ToOrdinal(1800, 1, 1) /\ letters[1].sender = X
    /\ letters[2].date = ToOrdinal(1800, 1, 15) /\ letters[2].sender = X
    /\ letters[3].date = ToOrdinal(1800, 2, 10) /\ letters[3].sender = Y

\* C14 : for the reference date d and the width w, the temporal graph is the
\* graph of exactly the timeline entries dated in [d - w/2, d + w/2], both
\* bounds included, and the weight of s -> a is the number of those entries
\* from s to a ; for the letters 01.01.1800 X to Y, 15.01.1800 X to Y,
\* 10.02.1800 Y to X, the reference 10.01.1800 and the width 20, the graph has
\* the single edge X -> Y of weight 2.
C14_ClosedWindow ==
    /\ pc = "temporal_shown" =>
           G_temporal = WindowGraph(InWindow(window.center_date,
                                             CHOOSE h \in 0..window.window_size :
                                                 2 * h = window.window_size))
    /\ ScenarioTimeline =>
           TemporalGraphOf(letters, ToOrdinal(1800, 1, 10), 20)
               = [nodes |-> {X, Y}, edges |-> (<<X, Y>> :> 2)]

\* C14 : the window drawn around 10.01.1800 on the three letters of the
\* scenario.
C14_Witness ==
    /\ ScenarioTimeline
    /\ pc = "temporal_shown"
    /\ window.center_date = ToOrdinal(1800, 1, 10)
    /\ G_temporal.edges = (<<X, Y>> :> 2)

TemporalDone == pc \in {"temporal_network", "temporal_shown", "done"}

\* The date of every record as the accepted formats read it, NoDate for a
\* sender_date that is missing or that no format reads.
RecordDates ==
    [j \in 1..Len(data) |->
        IF Present(data[j].sender_date) THEN ParseDate(data[j].sender_date, 1) ELSE NoDate]

TimelineKey(l) == [sender |-> l.sender, addressee |-> l.addressee, date |-> l.date]

\* C15 : a record whose sender_date no accepted format reads, or without a
\* sender or addressee name, is left out of the timeline and nothing else
\* is : every other record has its entry on the timeline, as many times as
\* it occurs ; and the records left out for their date alone are still
\* counted by the correspondent graph.  Stated where extract_temporal_data
\* has returned and at the end of the run ; the window in between leaves
\* the timeline alone.
C15_SilentExclusion ==
    pc \in {"temporal_network", "done"} =>
        \A date \in {RecordDates} :
        LET on == {j \in 1..Len(data) : BothPresent(data[j]) /\ date[j] # NoDate}
            entry == [j \in on |-> [sender |-> Strip(data[j].sender_name),
                                    addressee |-> Strip(data[j].addressee_name),
                                    date |-> date[j]]]
        IN  /\ Len(letters) = Cardinality(on)
            /\ \A j \in on :
                  Cardinality({k \in 1..Len(letters) : TimelineKey(letters[k]) = entry[j]})
                      = Cardinality({m \in on : entry[m] = entry[j]})
            /\ SumValues(G.edges) - Len(letters)
                   = Cardinality({j \in 1..Len(data) :
                                      BothPresent(data[j]) /\ date[j] = NoDate})

\* C15 : a run over a letter dated "yy", a letter without sender and a dated
\* letter, in this order : one timeline entry, two letters in the graph.
C15_Witness ==
    /\ pc = "done"
    /\ data = <<Letter(X, Y, Dbad), Letter(None, Y, D0101), Letter(X, Y, D1501)>>
    /\ Len(letters) = 1
    /\ letters[1].date = ToOrdinal(1800, 1, 15)
    /\ Weight(G, X, Y) = 2

\* C16 : the timeline is sorted by ascending date ; when it is not empty the
\* date range starts at the date of its first entry, the least date, ends at
\* the date of its last entry, the greatest date, and span_days is their
\* difference, never negative ; an empty timeline has no date range.
C16_SortedTimeline ==
    TemporalDone =>
        /\ \A j \in 1..Len(letters) : \A k \in j..Len(letters) :
              letters[j].date <= letters[k].date
        /\ letters # <<>> =>
              /\ date_range.start = letters[1].date
              /\ \A j \in 1..Len(letters) : date_range.start <= letters[j].date
              /\ date_range.end = letters[Len(letters)].date
              /\ \A j \in 1..Len(letters) : letters[j].date <= date_range.end
              /\ date_range.span_days = date_range.end - date_range.start
              /\ date_range.span_days >= 0
        /\ letters = <<>> => date_range = NoDateRange

\* C16 : the timeline of three letters that the records list latest first.
C16_Witness ==
    /\ pc = "temporal_network"
    /\ data = <<Letter(Y, X, D1002), Letter(X, Y, D1501), Letter(X, Y, D0101)>>
    /\ Len(letters) = 3
    /\ letters[1].date = ToOrdinal(1800, 1, 1)
    /\ date_range.span_days = 40

\* The co-occurrence counts of the pairs that are edges of the drawn topic
\* graph : what the topic filter reads when it is given its own output.
CooccurrenceWithin(g) ==
    [k \in {x \in DOMAIN cooccurrence : {x[1], x[2]} \in DOMAIN g.edges} |-> cooccurrence[k]]

\* The commodity data of the nodes and edges of the drawn commodity graph.
CommodityDataWithin(g) ==
    LET inside(item) == {item[1][1], item[1][2]} \in DOMAIN g.edges
    IN  [edges |-> SelectSeq(commodity_data.edges, inside),
         commodities |-> commodity_data.commodities \cap g.nodes,
         places |-> commodity_data.places \cap g.nodes]

SameNodesAndEdges(g, h) == g.nodes = h.nodes /\ DOMAIN g.edges = DOMAIN h.edges

\* C17, correspondent graph : the minimum-connections filter applied to its
\* own output removes nothing.
C17_NetworkPart ==
    pc = "network_shown" =>
        SameNodesAndEdges(FilterByConnections(G_filtered, min_connections), G_filtered)

\* C17, topic graph and commodity graph : the weight filter applied to its
\* own output removes nothing.
C17_WeightPart ==
    /\ pc = "topics_shown" =>
           SameNodesAndEdges(TopicsFilteredGraph(CooccurrenceWithin(G_topics_filtered),
                                                 min_cooccurrence),
                             G_topics_filtered)
    /\ pc = "commodity_shown" =>
           SameNodesAndEdges(CommodityFilteredGraph(CommodityDataWithin(G_commodity_filtered),
                                                    min_weight),
                             G_commodity_filtered)

\* C17 : filtering is idempotent : each of the three filters, applied with
\* the same threshold to the graph it has produced, gives a graph with
\* exactly the same nodes and edges.
C17_FilterIdempotent == C17_NetworkPart /\ C17_WeightPart

\* g has no node and no edge that h lacks, hence no more nodes or edges.
NoLarger(g, h) ==
    /\ g.nodes \subseteq h.nodes
    /\ DOMAIN g.edges \subseteq DOMAIN h.edges
    /\ Cardinality(g.nodes) <= Cardinality(h.nodes)
    /\ Cardinality(DOMAIN g.edges) <= Cardinality(DOMAIN h.edges)

\* C18 : filtering is monotone : with a threshold at least as high, each of
\* the three filters gives a graph with no more nodes and no more edges,
\* whether it is applied to the same graph or to the output of the looser
\* filter.
C18_FilterMonotone ==
    /\ pc = "network_shown" =>
           \A m \in min_connections..MaxMinConnections :
               /\ NoLarger(FilterByConnections(G, m), G_filtered)
               /\ NoLarger(FilterByConnections(G_filtered, m), G_filtered)
    /\ pc = "topics_shown" =>
           \A m \in min_cooccurrence..MaxValue(cooccurrence) :
               /\ NoLarger(TopicsFilteredGraph(cooccurrence, m), G_topics_filtered)
               /\ NoLarger(TopicsFilteredGraph(CooccurrenceWithin(G_topics_filtered), m),
                           G_topics_filtered)
    /\ pc = "commodity_shown" =>
           \A m \in min_weight..MaxCount(commodity_data.edges) :
               /\ NoLarger(CommodityFilteredGraph(commodity_data, m), G_commodity_filtered)
               /\ NoLarger(CommodityFilteredGraph(CommodityDataWithin(G_commodity_filtered), m),
                           G_commodity_filtered)

\* C18 : a correspondent graph drawn with threshold 1 of which the
\* threshold 2 keeps some nodes and drops others.
C18_Witness ==
    /\ pc = "network_shown"
    /\ min_connections = 1
    /\ FilterByConnections(G, 2).nodes # {}
    /\ FilterByConnections(G, 2).nodes # G_filtered.nodes
    /\ DOMAIN FilterByConnections(G, 2).edges # DOMAIN G_filtered.edges

\* Number of edges of an undirected graph at the node n.
UDegree(g, n) == Cardinality({e \in DOMAIN g.edges : n \in e})

\* C19, topic graph and commodity graph : every node drawn is on an edge.
C19_WeightPart ==
    /\ pc = "topics_shown" =>
           \A n \in G_topics_filtered.nodes : UDegree(G_topics_filtered, n) >= 1
    /\ pc = "commodity_shown" =>
           \A n \in G_commodity_filtered.nodes : UDegree(G_commodity_filtered, n) >= 1

\* C19 : a filtered graph has no isolated node : every node that remains has
\* at least one edge in the filtered graph and, in the correspondent graph,
\* at least min_connections connections counted on the filtered graph.
C19_NoIsolatedNode ==
    /\ pc = "network_shown" =>
           \A n \in G_filtered.nodes :
               /\ InOutDegree(G_filtered, n) >= 1
               /\ InOutDegree(G_filtered, n) >= min_connections
    /\ C19_WeightPart

\* C20 : with a minimum weight above the largest weight there is, the topic
\* filter and the commodity filter leave no edge and no node, whatever the
\* graph that the view has drawn.
C20_AboveMaximum ==
    /\ pc = "topics_shown" =>
           \A m \in (MaxValue(cooccurrence) + 1)..(MaxValue(cooccurrence) + 2) :
               /\ TopicsFilteredGraph(cooccurrence, m).nodes = {}
               /\ DOMAIN TopicsFilteredGraph(cooccurrence, m).edges = {}
    /\ pc = "commodity_shown" =>
           \A m \in (MaxCount(commodity_data.edges) + 1)..(MaxCount(commodity_data.edges) + 2) :
               /\ CommodityFilteredGraph(commodity_data, m).nodes = {}
               /\ DOMAIN CommodityFilteredGraph(commodity_data, m).edges = {}

\* C20 : a topic graph drawn with the slider at the largest count, 2, which
\* leaves some of its edges ; one more leaves nothing.
C20_Witness ==
    /\ pc = "topics_shown"
    /\ MaxValue(cooccurrence) = 2
    /\ min_cooccurrence = 2
    /\ G_topics_filtered.nodes # {}
    /\ DOMAIN G_topics_filtered.edges # {{k[1], k[2]} : k \in DOMAIN cooccurrence}
    /\ TopicsFilteredGraph(cooccurrence, 3) = EmptyGraph

\* A fraction between 0 and 1, both included.
InUnitInterval(f) == f.den > 0 /\ 0 <= f.num /\ f.num <= f.den

\* C21, the graphs without self-loop : the density the topic view shows lies
\* in [0, 1].
C21_TopicsPart == TopicsMetricsShown => InUnitInterval(Density(G_topics))

\* C21 : the density every view shows lies in [0, 1] : the number of edges
\* is at most n (n - 1) in a directed graph and n (n - 1) / 2 in an
\* undirected one.
C21_DensityInUnitInterval ==
    /\ NetworkDensityShown => InUnitInterval(DiDensity(G_filtered))
    /\ C21_TopicsPart
    /\ CommodityMetricsShown => InUnitInterval(Density(G_commodity))
    /\ TemporalMetricsShown => InUnitInterval(TemporalDensity(G_temporal))

\* The degree centrality of every node of g is in [0, 1] with two nodes or
\* more, and is not positive with one node.
CentralityInRange(g) ==
    \A n \in g.nodes :
        IF Cardinality(g.nodes) >= 2 THEN InUnitInterval(DegreeCentrality(g, n))
        ELSE DegreeCentrality(g, n).num <= 0

\* C22, the graphs without self-loop : the degree centralities the topic
\* view shows lie in [0, 1].
C22_TopicsPart == TopicsMetricsShown => CentralityInRange(G_topics)

\* C22 : in every graph a view computes degree centrality on, no node's
\* degree exceeds n - 1, so the centrality lies in [0, 1] ; with one node
\* the value is 0, not a positive number.
C22_DegreeCentralityInRange ==
    /\ C22_TopicsPart
    /\ CommodityMetricsShown => CentralityInRange(G_commodity)

\* No edge of g joins a node of S and a node outside S.
Closed(g, S) == \A e \in DOMAIN g.edges : e \subseteq S \/ e \cap S = {}

\* The components of g : the smallest sets of nodes, with a node, that no
\* edge leaves.
Components(g) ==
    {S \in SUBSET g.nodes :
        /\ S # {}
        /\ Closed(g, S)
        /\ \A T \in SUBSET S : (T # {} /\ Closed(g, T)) => T = S}

\* C23 : the topic view shows the average shortest path length exactly when
\* its graph is connected ; for a graph in several components it does not
\* compute the average and shows the number of components ; neither case
\* raises an error.
C23_PathOnlyWhenConnected ==
    TopicsMetricsShown =>
        \A m \in {PathMetric(G_topics)} :
        \A cs \in {Components(G_topics)} :
            /\ m.label \in {"avg_path", "components"}
            /\ m.label = "avg_path" <=> Cardinality(cs) = 1
            /\ m.label = "components" =>
                   m.value = Fraction(Cardinality(cs), 1) /\ Cardinality(cs) >= 2
            /\ m.label = "avg_path" =>
                   /\ m.value.den = Cardinality(G_topics.nodes) * (Cardinality(G_topics.nodes) - 1)
                   /\ m.value.num >= m.value.den

\* C23 : a topic graph in two components, {'', A} and {B, C}, for which the
\* view shows the number of components, 2.
C23_Witness ==
    /\ TopicsMetricsShown
    /\ G_topics.nodes = {<<>>, A, B, C}
    /\ DOMAIN G_topics.edges = {{<<>>, A}, {B, C}}
    /\ PathMetric(G_topics) = [label |-> "components", value |-> Fraction(2, 1)]

\* C23 : a connected topic graph, the path A - B - C, for which the view
\* shows the average shortest path length 8 / 6.
C23_ConnectedWitness ==
    /\ TopicsMetricsShown
    /\ DOMAIN G_topics.edges = {{A, B}, {B, C}}
    /\ PathMetric(G_topics) = [label |-> "avg_path", value |-> Fraction(8, 6)]

\* A graph with a node and an edge.
HasNodesAndEdges(g) == g.nodes # {} /\ DOMAIN g.edges # {}

\* C24, every view but the correspondent view : a graph is drawn or measured
\* only when it has a node and an edge, a maximum is taken only of weights
\* or dates that exist, and without them the view has warned and returned.
C24_OtherViews ==
    /\ pc = "topics" => (place_connections = <<>> <=> G_geo = EmptyGraph)
    /\ pc = "topics" /\ G_geo # EmptyGraph => HasNodesAndEdges(G_geo)
    /\ pc = "topics_shown" =>
           /\ DOMAIN cooccurrence # {}
           /\ HasNodesAndEdges(G_topics_filtered)
    /\ TopicsMetricsShown => HasNodesAndEdges(G_topics)
    /\ pc = "commodity" /\ DOMAIN cooccurrence = {} => G_topics_filtered = EmptyGraph
    /\ pc = "commodity_shown" =>
           /\ commodity_data.edges # <<>>
           /\ HasNodesAndEdges(G_commodity_filtered)
    /\ CommodityMetricsShown => HasNodesAndEdges(G_commodity)
    /\ pc = "temporal" /\ commodity_data.edges = <<>> =>
           G_commodity_filtered = EmptyTypedGraph
    /\ pc \in {"temporal_network", "temporal_shown"} =>
           letters # <<>> /\ date_range # NoDateRange
    /\ pc = "done" /\ letters = <<>> => date_range = NoDateRange
    /\ TemporalMetricsShown => HasNodesAndEdges(G_temporal)

\* C24 : in every view an extraction or a filter that leaves no node or no
\* edge ends in the warning of the view, and no metric, maximum or division
\* is evaluated on such a graph.
C24_EmptyIsInsufficientData ==
    /\ NetworkMetricsShown => HasNodesAndEdges(G_filtered)
    /\ C24_OtherViews

\* C25, minimum weights : the topic filter and the commodity filter build
\* no graph for a minimum weight below 1.
C25_WeightPart ==
    /\ pc = "topics_shown" =>
           \A m \in {-1, 0} : TopicsFilteredGraph(cooccurrence, m) = EmptyGraph
    /\ pc = "commodity_shown" =>
           \A m \in {-1, 0} :
               CommodityFilteredGraph(commodity_data, m) = EmptyTypedGraph

\* C25, window width : the temporal view builds no graph for a window of
\* width 0 or less, whatever the center date.
C25_WindowPart ==
    pc = "temporal_network" =>
        \A window_size \in {-30, 0} :
        \A selected_date \in {d \in CenterDates :
                                 MinDate(letters) <= d /\ d <= MaxDate(letters)} :
            TemporalGraphOf(letters, selected_date, window_size) = EmptyGraph

\* C25 : a minimum edge weight below 1 or a window width of 0 or less is
\* rejected before any computation : no graph is built for it.
C25_InvalidConfigurationRejected == C25_WeightPart /\ C25_WindowPart

\* The extractors run alone : each loop over the records d, started from
\* the empty accumulators of a fresh call.
RECURSIVE NetworkAlone(_, _)
NetworkAlone(ew, d) ==
    IF d = <<>> THEN ew ELSE NetworkAlone(NetworkAccumulate(ew, Head(d)), Tail(d))

RECURSIVE GeoAlone(_, _)
GeoAlone(conn, d) ==
    IF d = <<>> THEN conn ELSE GeoAlone(GeoAccumulate(conn, Head(d)), Tail(d))

RECURSIVE TopicsAlone(_, _)
TopicsAlone(lt, d) ==
    IF d = <<>> THEN lt
    ELSE TopicsAlone(IF EntryTopics(Head(d)) # {}
                     THEN Append(lt, EntryTopics(Head(d))) ELSE lt, Tail(d))

RECURSIVE FrequencyAlone(_, _)
FrequencyAlone(counter, d) ==
    IF d = <<>> THEN counter
    ELSE FrequencyAlone(CountStripped(CountStripped(counter, Head(d).main_topics),
                                      Head(d).keywords), Tail(d))

RECURSIVE CommodityAlone(_, _)
CommodityAlone(list, d) ==
    IF d = <<>> THEN list
    ELSE CommodityAlone(AppendEdges(list, Sorted(EntryCommodities(Head(d))),
                                    Sorted(EntryPlaces(Head(d)))), Tail(d))

RECURSIVE TemporalAlone(_, _)
TemporalAlone(ls, d) ==
    IF d = <<>> THEN ls ELSE TemporalAlone(TemporalAccumulate(ls, Head(d)), Tail(d))

\* C26, results : what each extractor leaves, after the views before it and
\* after any earlier run of the script, is what it computes alone on the
\* records.
C26_SameAsAlone ==
    /\ pc = "network_shown" =>
           /\ edge_weights = NetworkAlone(EmptyDict, data)
           /\ G = DiGraphOf(NetworkAlone(EmptyDict, data))
    /\ pc = "topics" =>
           /\ place_connections = GeoAlone(<<>>, data)
           /\ all_places = UNION {SeqRange(CurrentLetterPlaces(data[j])) : j \in 1..Len(data)}
           /\ place_info = PlaceInfoOf(data, all_places)
    /\ pc \in {"topics_shown", "commodity"} =>
           /\ letters_topics = TopicsAlone(<<>>, data)
           /\ all_topics = FrequencyAlone(EmptyDict, data)
           /\ cooccurrence = CooccurrenceOf(EmptyDict, TopicsAlone(<<>>, data))
    /\ pc \in {"commodity_shown", "temporal"} =>
           /\ commodity_data.edges = CounterOf(<<>>, CommodityAlone(<<>>, data))
           /\ commodity_data.commodities = UNION {EntryCommodities(data[j]) : j \in 1..Len(data)}
           /\ commodity_data.places = UNION {EntryPlaces(data[j]) : j \in 1..Len(data)}
    /\ pc \in {"temporal_network", "done"} =>
           /\ letters = SortByDate(<<>>, TemporalAlone(<<>>, data))
           /\ date_range = DateRangeOf(letters)

\* C26 : every extraction is a function of the records alone : it gives the
\* same tables and graphs whatever ran before it, in this run of the script
\* or in an earlier one, and no step changes a record.
C26_ExtractionIsPure == []C26_SameAsAlone /\ [][data' = data]_vars

\* C26 : the commodity extraction of a run, done after the correspondent,
\* geographic and topic extractions on the same records, each of which has
\* left tables of its own.
C26_Witness ==
    /\ pc = "temporal"
    /\ i = 1
    /\ commodity_data.edges # <<>>
    /\ place_connections # <<>>
    /\ DOMAIN cooccurrence # {}
    /\ Len(data) >= 2

\* The first n records.
FirstRecords(n) == SubSeq(data, 1, IF n < Len(data) THEN n ELSE Len(data))

\* C27 : with the topic extraction and the commodity extraction of two
\* sessions interleaved loop body by loop body over the same records, what
\* each has accumulated is, at every moment, what it accumulates alone over
\* the records it has passed, and each builds the graph it builds alone ;
\* nothing of it depends on how far the other one is.
C27_InterleavedAsAlone ==
    pc = "interleaved" =>
        /\ letters_topics = TopicsAlone(<<>>, FirstRecords(i - 1))
        /\ all_topics = FrequencyAlone(EmptyDict, FirstRecords(i - 1))
        /\ edges = CommodityAlone(<<>>, FirstRecords(i2 - 1))
        /\ commodities = UNION {EntryCommodities(data[n]) : n \in 1..Len(FirstRecords(i2 - 1))}
        /\ places = UNION {EntryPlaces(data[n]) : n \in 1..Len(FirstRecords(i2 - 1))}
        /\ IF i = Len(data) + 2
           THEN /\ cooccurrence = CooccurrenceOf(EmptyDict, TopicsAlone(<<>>, data))
                /\ G_topics = GraphOfDict(EmptyGraph, cooccurrence)
           ELSE cooccurrence = EmptyDict /\ G_topics = EmptyGraph
        /\ IF i2 = Len(data) + 2
           THEN /\ commodity_data.edges = CounterOf(<<>>, CommodityAlone(<<>>, data))
                /\ G_commodity = IF commodity_data.edges = <<>> THEN EmptyTypedGraph
                                 ELSE BipartiteGraphOf(commodity_data)
           ELSE commodity_data = EmptyCommodityData /\ G_commodity = EmptyTypedGraph

\* C27 : the commodity extraction has passed one record of two while the
\* topic extraction has passed both and counted topics the other has not
\* met yet ; each has its own partial tables.
C27_Witness ==
    /\ pc = "interleaved"
    /\ Len(data) = 2
    /\ i = 3
    /\ i2 = 2
    /\ edges # <<>>
    /\ DOMAIN all_topics # commodities
    /\ letters_topics # <<>>

\* C27 : both extractions have finished after an interleaving, each with a
\* graph that has edges.
C27_FinishedWitness ==
    /\ pc = "interleaved"
    /\ i = Len(data) + 2
    /\ i2 = Len(data) + 2
    /\ DOMAIN G_topics.edges # {}
    /\ DOMAIN G_commodity.edges # {}

\* The formats, by position, that parse the text.
MatchingFormats(text) ==
    {n \in 1..Len(date_formats) : Strptime(text, date_formats[n]) # NoDate}

\* The text has day.month.year, day/month/year, year-month-day or
\* day-month-year as its shape, by the position of the format in the order.
ShapeOf(text, n) ==
    LET sep == <<".", "/", "-", "-">>[n]
        parts == Split(text, sep, <<>>)
    IN  /\ Len(parts) = 3
        /\ Len(parts[IF n = 3 THEN 1 ELSE 3]) = 4
        /\ Len(parts[IF n = 3 THEN 3 ELSE 1]) \in {1, 2}

\* C28 : the date of a record is the parse of its trimmed text by the first
\* format, in the order day.month.year, day/month/year, year-month-day,
\* day-month-year, that parses it ; the loop stops at that format ; a text
\* no format parses gives no date, and its record is not in the timeline ;
\* for a record without a date text no format is tried.
C28_FirstMatchingFormat ==
    \A text \in {IF pc \in {"date_loop", "date_parsed", "date_done"}
                    /\ Truthy(data[1].sender_date)
                 THEN Strip(data[1].sender_date) ELSE <<>>} :
    \A found \in {IF pc \in {"date_loop", "date_parsed", "date_done"}
                  THEN MatchingFormats(text) ELSE {}} :
        /\ pc = "date_loop" =>
               /\ date_obj = NoDate
               /\ \A n \in 1..(date_format - 1) : n \notin found
        /\ pc \in {"date_parsed", "date_done"} =>
               IF ~Truthy(data[1].sender_date)
               THEN date_obj = NoDate /\ date_format = 1
               ELSE IF found = {}
               THEN date_obj = NoDate /\ date_format = Len(date_formats) + 1
               ELSE /\ \A n \in found : date_format <= n
                    /\ date_format \in found
                    /\ date_obj = Strptime(text, date_formats[date_format])
                    /\ ShapeOf(text, date_format)
        /\ pc = "date_done" =>
               IF date_obj = NoDate THEN letters = <<>>
               ELSE Len(letters) = 1 /\ letters[1].date = date_obj

\* C28 : the text ' 15-01-1800 ', which the fourth format parses after the
\* three before it have failed ; its letter is in the timeline with the date
\* 15 January 1800.
C28_Witness ==
    /\ pc = "date_done"
    /\ data[1].sender_date = <<" ", "1", "5", "-", "0", "1", "-", "1", "8", "0", "0", " ">>
    /\ date_format = 4
    /\ date_obj = ToOrdinal(1800, 1, 15)
    /\ Len(letters) = 1

\* C28 : the text '1800-2-31', in the shape of the third format but no day
\* of the calendar : no format parses it and its record is left out.
C28_DroppedWitness ==
    /\ pc = "date_done"
    /\ data[1].sender_date = <<"1", "8", "0", "0", "-", "2", "-", "3", "1">>
    /\ date_format = 5
    /\ date_obj = NoDate
    /\ letters = <<>>

\* C28 : the text '1/2/1800' parsed by the second format as 1 February 1800.
C28_SecondFormatWitness ==
    /\ pc = "date_parsed"
    /\ data[1].sender_date = <<"1", "/", "2", "/", "1", "8", "0", "0">>
    /\ date_format = 2
    /\ date_obj = ToOrdinal(1800, 2, 1)

\* C29, one step : until the script is run again, a step never lowers or
\* drops a count of the correspondent dict or of the place Counter, and only
\* appends to the edge list of the commodity extraction.
C29_StepMonotone ==
    pc # "done" =>
        /\ \A key \in DOMAIN edge_weights :
               key \in DOMAIN edge_weights' /\ edge_weights'[key] >= edge_weights[key]
        /\ \A n \in 1..Len(place_connections) :
               OGet(place_connections', place_connections[n][1]) >= place_connections[n][2]
        /\ \A key \in DOMAIN all_topics :
               key \in DOMAIN all_topics' /\ all_topics'[key] >= all_topics[key]
        /\ Len(edges') >= Len(edges) /\ SubSeq(edges', 1, Len(edges)) = edges

\* The weights of a graph are all 1 or more.
WeightsAtLeastOne(g) == \A e \in DOMAIN g.edges : g.edges[e] \in Nat \ {0}

\* C29, the graphs : every count accumulated and every edge of a graph that
\* an extraction has built has a weight of 1 or more.
C29_FinalWeights ==
    /\ \A key \in DOMAIN edge_weights : edge_weights[key] \in Nat \ {0}
    /\ \A n \in 1..Len(place_connections) : place_connections[n][2] \in Nat \ {0}
    /\ \A key \in DOMAIN cooccurrence : cooccurrence[key] \in Nat \ {0}
    /\ \A n \in 1..Len(commodity_data.edges) : commodity_data.edges[n][2] \in Nat \ {0}
    /\ WeightsAtLeastOne(G)
    /\ WeightsAtLeastOne(G_filtered)
    /\ WeightsAtLeastOne(G_geo)
    /\ WeightsAtLeastOne(G_topics)
    /\ WeightsAtLeastOne(G_commodity)
    /\ WeightsAtLeastOne(G_temporal)

\* C29 : while an extraction passes over the records no edge weight goes
\* down or is reset, and every edge of the graph it builds has an integer
\* weight of 1 or more.
C29_WeightsNeverDecrease == []C29_FinalWeights /\ [][C29_StepMonotone]_vars

\* C29 : the geographic extraction after its second record, with two pairs
\* of places counted and one of them counted in both records.
C29_Witness ==
    /\ pc = "geo"
    /\ i = 3
    /\ Len(place_connections) >= 2
    /\ \E n \in 1..Len(place_connections) :
           /\ place_connections[n][2] >= 4
           /\ OGet(GeoAccumulate(<<>>, data[1]), place_connections[n][1]) >= 1
           /\ OGet(GeoAccumulate(<<>>, data[2]), place_connections[n][1]) >= 1

\* The window of the temporal view holds every letter of the timeline.
WindowCoversRange ==
    /\ window.center_date - (window.window_size \div 2) <= MinDate(letters)
    /\ MaxDate(letters) <= window.center_date + (window.window_size \div 2)

\* Every edge of g is an edge of h, with a weight no larger than in h.
Restricts(g, h) ==
    \A e \in DOMAIN g.edges : e \in DOMAIN h.edges /\ g.edges[e] <= h.edges[e]

\* The temporal graph restricts the correspondent graph, and equals it when
\* the window covers all dates and every record is in the timeline.
RestrictedToWindow ==
    /\ Restricts(G_temporal, G)
    /\ (WindowCoversRange /\ Len(letters) = Len(data)) =>
           G_temporal.nodes = G.nodes /\ G_temporal.edges = G.edges

\* Every name of the records is written without blanks around it.
NamesTrimmed ==
    \A n \in 1..Len(data) :
        /\ Truthy(data[n].sender_name) => Strip(data[n].sender_name) = data[n].sender_name
        /\ Truthy(data[n].addressee_name) =>
               Strip(data[n].addressee_name) = data[n].addressee_name

\* C30, records whose names have no blanks around them : the temporal graph
\* restricts the correspondent graph.
C30_TrimmedPart ==
    (pc = "temporal_shown" /\ G_temporal.nodes # {} /\ NamesTrimmed) => RestrictedToWindow

\* C30 : every edge s -> a of the temporal graph of a window is an edge of
\* the correspondent graph of the same records, with a weight no larger ;
\* and when the window covers all the dates and every record has a date the
\* two graphs have the same nodes, edges and weights.
C30_TemporalRestrictsCorrespondent ==
    (pc = "temporal_shown" /\ G_temporal.nodes # {}) => RestrictedToWindow

====
